---- MODULE Spec2Model ----
(***************************************************************************)
(* Model of the ekubo-sdk retry loops: the generic retry engine withRetry  *)
(* (utils/retry.ts) and the quote protocol client fetchSwapQuote           *)
(* (api/quote.ts).  Both are a for-loop over `attempt` that awaits an      *)
(* operation, classifies its failure and sleeps before the next attempt.    *)
(* The variables below are the activation record of one such call; the two *)
(* specifications SpecQuote and SpecRetry run one call of fetchSwapQuote   *)
(* and one call of withRetry respectively.                                 *)
(***************************************************************************)
EXTENDS Integers, Sequences, FiniteSets, TLC

\* Largest maxRetries the model explores.
MaxAttempts == 3

\* Most fetches one QuotePoller issues, most start() calls that take effect,
\* and largest maxConsecutiveErrors the model explores.
MaxFetches == 3

MaxStarts == 2

MaxThreshold == 2

VARIABLES
    maxRetries,     \* config.maxRetries / options.maxRetries of the call
    signalAborted,  \* signal?.aborted of the caller-supplied AbortSignal
    attempt,        \* loop variable `attempt`
    lastError,      \* local `lastError`
    pc,             \* "start" | "fetching" | "sleeping" | "done"
    calls,          \* number of times fetchFn / fn has been invoked
    settled,        \* how each invocation ended, in order
    sleeps,         \* number of backoff waits begun (await sleep(delay))
    result          \* outcome of the call: pending, returned or thrown

\* QuotePoller (polling/poller.ts): its fields, the timers and abort
\* controllers it created, the fetches it has in flight and what it told
\* its callbacks.
VARIABLES
    isRunning,             \* this.isRunning
    intervalId,            \* this.intervalId (0 = null)
    abortController,       \* this.abortController (0 = null)
    consecutiveErrors,     \* this.consecutiveErrors
    params,                \* this.params
    maxConsecutiveErrors,  \* this.config.maxConsecutiveErrors
    armed,                 \* intervals set and not yet cleared
    abortedCtrls,          \* controllers whose abort() has been called
    inflight,              \* fetchSwapQuote calls not yet settled
    starts,                \* start() calls that took effect so far
    issued,                \* fetchSwapQuote calls made so far
    callbacks,             \* callbacks invoked by the last operation, in order
    errorStops,            \* onStop("errors") calls since the last start
    event                  \* the operation that ran last

\* A call of generateSwapCalls.
VARIABLES
    genParams,             \* the params argument
    genResult,             \* what the call returned or threw
    genOp                  \* the function called: generateSwapCalls or
                           \* prepareSwapCalls ("none" before the call)

\* The request of a fetchSwapQuote call.
VARIABLES
    quoteParams,           \* amount, tokenFrom, tokenTo and chainId of params
    requested              \* the URLs fetchFn was invoked with, in order

\* A call of one of the pure functions of the library.
VARIABLES
    fnCall,                \* the function and its arguments
    fnResult               \* what it returned or threw

callVars == <<maxRetries, signalAborted, attempt, lastError, pc, calls,
              settled, sleeps, result>>

pollerVars == <<isRunning, intervalId, abortController, consecutiveErrors,
                params, maxConsecutiveErrors, armed, abortedCtrls, inflight,
                starts, issued, callbacks, errorStops, event>>

genVars == <<genParams, genResult, genOp>>

urlVars == <<quoteParams, requested>>

fnVars == <<fnCall, fnResult>>

vars == <<callVars, pollerVars, genVars, urlVars, fnVars>>

-----------------------------------------------------------------------------
(* Errors.  cls is the class the error is an instance of, name its `name`   *)
(* property, statusCode the ApiError status (0 = undefined) and at the      *)
(* invocation during which the error object was created (0 = before any).   *)

Err(cls, name, statusCode, at) ==
    [cls |-> cls, name |-> name, statusCode |-> statusCode, at |-> at]

NoError == Err("null", "", 0, 0)

InsufficientLiquidityError(at) ==
    Err("InsufficientLiquidityError", "InsufficientLiquidityError", 0, at)

ApiError(statusCode, at) == Err("ApiError", "ApiError", statusCode, at)

RateLimitError(at) == Err("RateLimitError", "RateLimitError", 0, at)

TimeoutError(at) == Err("TimeoutError", "TimeoutError", 0, at)

AbortError(at) == Err("AbortError", "AbortError", 0, at)

TokenNotFoundError(at) == Err("TokenNotFoundError", "TokenNotFoundError", 0, at)

InvalidChainError(at) == Err("InvalidChainError", "InvalidChainError", 0, at)

\* What fetch rejects with when the signal passed to it is aborted: a
\* DOMException whose name is "AbortError" (not the SDK's AbortError class).
DOMAbortError(at) == Err("DOMException", "AbortError", 0, at)

\* What fetch rejects with on a network failure.
NetworkError(at) == Err("TypeError", "TypeError", 0, at)

\* A plain Error.
PlainError(at) == Err("Error", "Error", 0, at)

\* isNonRetryableError without its last instanceof test.
isNonRetryableError_NoInvalidChain(error) ==
    error.cls \in {"InsufficientLiquidityError", "AbortError",
                   "TokenNotFoundError"}

isNonRetryableError(error) ==
    error.cls \in {"InsufficientLiquidityError", "AbortError",
                   "TokenNotFoundError", "InvalidChainError"}

Pending == [status |-> "pending", error |-> NoError, value |-> 0]

\* The call returned; value is the invocation whose payload it returns.
Returned(v) == [status |-> "returned", error |-> NoError, value |-> v]

Thrown(e) == [status |-> "thrown", error |-> e, value |-> 0]

\* No operation has run on the poller yet.
NoEvent == [op |-> "none"]

\* The params a QuotePoller is constructed with.
InitialParams == [amount |-> 1, tokenTo |-> "STRK"]

\* The QuotePoller as its constructor and field initialisers leave it, for
\* the given threshold.
Constructed(threshold) ==
    /\ isRunning = FALSE
    /\ intervalId = 0
    /\ abortController = 0
    /\ consecutiveErrors = 0
    /\ params = InitialParams
    /\ maxConsecutiveErrors = threshold
    /\ armed = {}
    /\ abortedCtrls = {}
    /\ inflight = {}
    /\ starts = 0
    /\ issued = 0
    /\ callbacks = <<>>
    /\ errorStops = 0
    /\ event = NoEvent

\* In the specifications of a single withRetry or fetchSwapQuote call the
\* poller is constructed with the default threshold and never used.
NoPoller == Constructed(3)

\* No params and no result: generateSwapCalls has not been called.
NoParams == [called |-> FALSE]

NoResult == [status |-> "none"]

\* In the specifications of the other components generateSwapCalls is never
\* called.
NoGenerate == genParams = NoParams /\ genResult = NoResult /\ genOp = "none"

\* In the specifications of the other components the request of
\* fetchSwapQuote is not looked at.
NoRequest == quoteParams = NoParams /\ requested = <<>>

\* In the specifications of the other components no pure function is called.
NoFn == fnCall = NoParams /\ fnResult = NoResult

\* In the specifications of the other components no withRetry or
\* fetchSwapQuote call is made.
NoCall ==
    /\ maxRetries = 0
    /\ signalAborted = FALSE
    /\ attempt = 0
    /\ lastError = NoError
    /\ pc = "start"
    /\ calls = 0
    /\ settled = <<>>
    /\ sleeps = 0
    /\ result = Pending

-----------------------------------------------------------------------------
(* Strings and hexadecimal conversion                                      *)

\* A string is the sequence of its characters.
Digits ==
    <<"0", "1", "2", "3", "4", "5", "6", "7", "8", "9",
      "a", "b", "c", "d", "e", "f">>

UpperDigits == <<"A", "B", "C", "D", "E", "F">>

\* The value of a digit character, in either case.
DigitValue(c) ==
    IF \E i \in 1..16 : Digits[i] = c
    THEN (CHOOSE i \in 1..16 : Digits[i] = c) - 1
    ELSE (CHOOSE i \in 1..6 : UpperDigits[i] = c) + 9

\* String.prototype.toLowerCase().
toLowerCase(str) ==
    [i \in 1..Len(str) |->
        IF \E j \in 1..6 : UpperDigits[j] = str[i]
        THEN Digits[(CHOOSE j \in 1..6 : UpperDigits[j] = str[i]) + 10]
        ELSE str[i]]

\* The number a string of digits denotes in the given radix.
RECURSIVE ParseDigits(_, _)
ParseDigits(str, radix) ==
    IF str = <<>>
    THEN 0
    ELSE ParseDigits(SubSeq(str, 1, Len(str) - 1), radix) * radix
           + DigitValue(str[Len(str)])

\* str begins with 0x or 0X.
HasHexPrefix(str) ==
    Len(str) >= 2 /\ str[1] = "0" /\ str[2] \in {"x", "X"}

\* BigInt(str) for a string that is a numeric literal: hexadecimal after 0x
\* or 0X, else decimal with an optional minus sign.
BigInt(str) ==
    IF HasHexPrefix(str)
    THEN ParseDigits(SubSeq(str, 3, Len(str)), 16)
    ELSE IF str # <<>> /\ str[1] = "-"
    THEN -ParseDigits(SubSeq(str, 2, Len(str)), 10)
    ELSE ParseDigits(str, 10)

\* The hexadecimal digits of a natural number, without leading zeros.
RECURSIVE NatToString16(_)
NatToString16(n) ==
    IF n < 16
    THEN <<Digits[n + 1]>>
    ELSE NatToString16(n \div 16) \o <<Digits[(n % 16) + 1]>>

\* BigInt.prototype.toString(16).
ToString16(n) ==
    IF n < 0 THEN <<"-">> \o NatToString16(-n) ELSE NatToString16(n)

\* toHex(value) for a bigint or number.
toHex(value) == <<"0", "x">> \o ToString16(value)

\* toHex(value) for a string: both branches convert through BigInt.
toHexOfString(value) == <<"0", "x">> \o ToString16(BigInt(value))

\* normalizeAddress that lower-cases the string without converting it.
normalizeAddress_NoConversion(address) == toLowerCase(address)

\* normalizeAddress(address).
normalizeAddress(address) == toLowerCase(toHexOfString(address))

\* The hexadecimal digits of 2^128 - 1.
LimbDigits == 32

\* value % 2n ** 128n for value >= 0: the last 32 hexadecimal digits.
Low128(value) ==
    LET d == NatToString16(value)
    IN  IF Len(d) <= LimbDigits
        THEN value
        ELSE ParseDigits(SubSeq(d, Len(d) - LimbDigits + 1, Len(d)), 16)

\* value >> 128n for value >= 0: the digits before the last 32.
High128(value) ==
    LET d == NatToString16(value)
    IN  IF Len(d) <= LimbDigits
        THEN 0
        ELSE ParseDigits(SubSeq(d, 1, Len(d) - LimbDigits), 16)

\* Integer division of bigints, truncating toward zero.
BigIntDiv(a, b) ==
    IF (a >= 0) = (b > 0)
    THEN (IF a >= 0 THEN a ELSE -a) \div (IF b > 0 THEN b ELSE -b)
    ELSE -((IF a >= 0 THEN a ELSE -a) \div (IF b > 0 THEN b ELSE -b))

\* abs(value).
abs(value) == IF value < 0 THEN -value ELSE value

\* addSlippage that takes the buffer off the amount.
addSlippage_Subtracts(amount, slippagePercent) ==
    amount - BigIntDiv(amount * slippagePercent, 100)

\* addSlippage(amount, slippagePercent).
addSlippage(amount, slippagePercent) ==
    amount + BigIntDiv(amount * slippagePercent, 100)

\* subtractSlippage whose division rounds down instead of toward zero.
subtractSlippage_RoundsDown(amount, slippagePercent) ==
    amount - ((amount * slippagePercent) \div 100)

\* subtractSlippage(amount, slippagePercent).
subtractSlippage(amount, slippagePercent) ==
    amount - BigIntDiv(amount * slippagePercent, 100)

\* CHAIN_IDS.
CHAIN_IDS ==
    [MAINNET |-> "23448594291968334", SEPOLIA |-> "393402133025997798000961"]


-----------------------------------------------------------------------------
(* fetchSwapQuote                                                          *)

\* The ways one `await fetchFn(url, ...)` plus the reading of its body ends.
\*   ok_quote      HTTP success, normal payload
\*   ok_liquidity  HTTP success, {error: "...Insufficient liquidity..."}
\*   ok_error      HTTP success, {error: <other text>}
\*   nf_liquidity  404, body {error: "...Insufficient liquidity..."}
\*   nf_other      404, body without a liquidity error
\*   nf_badbody    404, response.json() rejects (malformed body, or the read
\*                 of the body is aborted) or the body is not an object
\*   rl            429 without a usable Retry-After header
\*   rl0           429 with Retry-After: 0
\*   s500, s503    other non-success statuses
\*   neterr        fetch rejects with a network TypeError
\*   timeout       the per-attempt timer aborts the request
Responses ==
    {"ok_quote", "ok_liquidity", "ok_error", "nf_liquidity", "nf_other",
     "nf_badbody", "rl", "rl0", "s500", "s503", "neterr", "timeout"}

\* The caller's signal aborted the request in flight.
UserAbort == "user_abort"

\* The ways a request can settle, given whether the caller's signal is
\* aborted.  With an aborted signal fetchFn rejects, or it had already
\* resolved and the read of the body, response.json(), rejects: in the 200
\* branch that rejection reaches the catch block like the rejection of
\* fetchFn (both UserAbort); in the 404 branch it is caught by the inner
\* catch like any other unreadable body (nf_badbody).
SettleWays(aborted) ==
    IF aborted THEN {UserAbort, "nf_badbody"} ELSE Responses

StatusOf(r) ==
    CASE r \in {"ok_quote", "ok_liquidity", "ok_error"} -> 200
      [] r \in {"nf_liquidity", "nf_other", "nf_badbody"} -> 404
      [] r \in {"rl", "rl0"} -> 429
      [] r = "s500" -> 500
      [] r = "s503" -> 503
      [] OTHER -> 0

\* Completion records of a block of the loop body.
Return == [kind |-> "return", error |-> NoError]

Throw(e) == [kind |-> "throw", error |-> e]

Break == [kind |-> "break", error |-> NoError]

Sleep == [kind |-> "sleep", error |-> NoError]

\* QuoteTry without the final-attempt test of the 429 branch: every 429
\* sleeps and continues.
QuoteTry_429AlwaysContinues(r, att, max, at) ==
    CASE r = "ok_quote" -> Return
      [] r = "ok_liquidity" -> Throw(InsufficientLiquidityError(at))
      [] r = "ok_error" -> Throw(ApiError(0, at))
      [] r = "nf_liquidity" -> Throw(InsufficientLiquidityError(at))
      [] r \in {"nf_other", "nf_badbody"} -> Throw(ApiError(404, at))
      [] r \in {"rl", "rl0"} -> Sleep
      [] r \in {"s500", "s503"} -> Throw(ApiError(StatusOf(r), at))
      [] r = "neterr" -> Throw(NetworkError(at))
      [] r \in {"timeout", UserAbort} -> Throw(DOMAbortError(at))

\* QuoteTry building the ApiError of an unexpected status without the status.
QuoteTry_StatusDropped(r, att, max, at) ==
    CASE r = "ok_quote" -> Return
      [] r = "ok_liquidity" -> Throw(InsufficientLiquidityError(at))
      [] r = "ok_error" -> Throw(ApiError(0, at))
      [] r = "nf_liquidity" -> Throw(InsufficientLiquidityError(at))
      [] r \in {"nf_other", "nf_badbody"} -> Throw(ApiError(404, at))
      [] r \in {"rl", "rl0"} ->
            IF att = max - 1 THEN Throw(RateLimitError(at)) ELSE Sleep
      [] r \in {"s500", "s503"} -> Throw(ApiError(0, at))
      [] r = "neterr" -> Throw(NetworkError(at))
      [] r \in {"timeout", UserAbort} -> Throw(DOMAbortError(at))

\* QuoteTry without the inner try/catch around the reading of a 404 body.
QuoteTry_404BodyEscapes(r, att, max, at) ==
    CASE r = "ok_quote" -> Return
      [] r = "ok_liquidity" -> Throw(InsufficientLiquidityError(at))
      [] r = "ok_error" -> Throw(ApiError(0, at))
      [] r = "nf_liquidity" -> Throw(InsufficientLiquidityError(at))
      [] r = "nf_other" -> Throw(ApiError(404, at))
      [] r = "nf_badbody" -> Throw(PlainError(at))
      [] r \in {"rl", "rl0"} ->
            IF att = max - 1 THEN Throw(RateLimitError(at)) ELSE Sleep
      [] r \in {"s500", "s503"} -> Throw(ApiError(StatusOf(r), at))
      [] r = "neterr" -> Throw(NetworkError(at))
      [] r \in {"timeout", UserAbort} -> Throw(DOMAbortError(at))

\* The try block after fetchFn has settled with r, in attempt att of max,
\* r being the at-th request: what it returns, throws, or (429 on a
\* non-final attempt) that it sleeps and continues.
QuoteTry(r, att, max, at) ==
    CASE r = "ok_quote" -> Return
      [] r = "ok_liquidity" -> Throw(InsufficientLiquidityError(at))
      [] r = "ok_error" -> Throw(ApiError(0, at))
      [] r = "nf_liquidity" -> Throw(InsufficientLiquidityError(at))
      [] r \in {"nf_other", "nf_badbody"} -> Throw(ApiError(404, at))
      [] r \in {"rl", "rl0"} ->
            IF att = max - 1 THEN Throw(RateLimitError(at)) ELSE Sleep
      [] r \in {"s500", "s503"} -> Throw(ApiError(StatusOf(r), at))
      [] r = "neterr" -> Throw(NetworkError(at))
      [] r \in {"timeout", UserAbort} -> Throw(DOMAbortError(at))

\* QuoteCatch testing the last attempt against maxRetries instead of
\* maxRetries - 1.
QuoteCatch_LastOffByOne(error, att, max, at) ==
    IF error.name = "AbortError" \/ error.cls = "AbortError"
    THEN Throw(AbortError(at))
    ELSE IF error.cls = "InsufficientLiquidityError"
    THEN Throw(error)
    ELSE IF att = max
    THEN Break
    ELSE Sleep

\* QuoteCatch without the rethrow of InsufficientLiquidityError.
QuoteCatch_LiquidityRetried(error, att, max, at) ==
    IF error.name = "AbortError" \/ error.cls = "AbortError"
    THEN Throw(AbortError(at))
    ELSE IF att = max - 1
    THEN Break
    ELSE Sleep

\* QuoteCatch rethrowing an ApiError that has no status code at once.
QuoteCatch_BodyErrorNotRetried(error, att, max, at) ==
    IF error.name = "AbortError" \/ error.cls = "AbortError"
    THEN Throw(AbortError(at))
    ELSE IF error.cls = "InsufficientLiquidityError"
    THEN Throw(error)
    ELSE IF error.cls = "ApiError" /\ error.statusCode = 0
    THEN Throw(error)
    ELSE IF att = max - 1
    THEN Break
    ELSE Sleep

\* The catch block for error in attempt att of max.
QuoteCatch(error, att, max, at) ==
    IF error.name = "AbortError" \/ error.cls = "AbortError"
    THEN Throw(AbortError(at))
    ELSE IF error.cls = "InsufficientLiquidityError"
    THEN Throw(error)
    ELSE IF att = max - 1
    THEN Break
    ELSE Sleep

\* The statement after the loop: throw lastError || new ApiError(...).
QuoteAfterLoop(last, at) == IF last # NoError THEN last ELSE ApiError(0, at)

\* QuoteLoopHead with the loop condition attempt < maxRetries - 1.
QuoteLoopHead_OneAttemptShort(att) ==
    /\ attempt' = att
    /\ IF att < maxRetries - 1
       THEN IF signalAborted
            THEN /\ pc' = "done"
                 /\ result' = Thrown(AbortError(calls))
                 /\ calls' = calls
            ELSE /\ pc' = "fetching"
                 /\ result' = result
                 /\ calls' = calls + 1
       ELSE /\ pc' = "done"
            /\ result' = Thrown(QuoteAfterLoop(lastError, calls))
            /\ calls' = calls

\* Top of the loop for attempt att: the loop condition, the check of the
\* caller's signal, and the start of the request.
QuoteLoopHead(att) ==
    /\ attempt' = att
    /\ IF att < maxRetries
       THEN IF signalAborted
            THEN /\ pc' = "done"
                 /\ result' = Thrown(AbortError(calls))
                 /\ calls' = calls
            ELSE /\ pc' = "fetching"
                 /\ result' = result
                 /\ calls' = calls + 1
       ELSE /\ pc' = "done"
            /\ result' = Thrown(QuoteAfterLoop(lastError, calls))
            /\ calls' = calls

\* API_URLS.QUOTER.
QUOTER == "https://prod-api-quoter.ekubo.org"

\* BigInt.prototype.toString(): the decimal digits, after a minus sign for a
\* negative number.
RECURSIVE NatToString10(_)
NatToString10(n) ==
    IF n < 10
    THEN <<Digits[n + 1]>>
    ELSE NatToString10(n \div 10) \o <<Digits[(n % 10) + 1]>>

ToString10(n) ==
    IF n < 0 THEN <<"-">> \o NatToString10(-n) ELSE NatToString10(n)

\* The amount, tokens and chain fetchSwapQuote is called with.
FetchSwapQuoteParams ==
    {[called |-> TRUE, amount |-> a, tokenFrom |-> tk.from,
      tokenTo |-> tk.to] @@ ch :
        a \in {-5, 0, 7},
        tk \in {[from |-> <<"0", "x", "0", "1">>,
                 to |-> <<"0", "X", "a", "B">>],
                [from |-> <<"1", "7", "1">>, to |-> <<"0", "x", "0", "C">>]},
        ch \in {[f \in {} |-> 0], [chainId |-> CHAIN_IDS.SEPOLIA]}}

\* url with the tokens in the same order whatever the sign of the amount.
QuoteUrl_NeverSwapped(given) ==
    <<QUOTER,
      IF "chainId" \in DOMAIN given THEN given.chainId
      ELSE CHAIN_IDS.MAINNET,
      ToString10(given.amount),
      normalizeAddress(given.tokenFrom),
      normalizeAddress(given.tokenTo)>>

\* url: the segments the template literal joins with "/".
QuoteUrl(given) ==
    LET chainId == IF "chainId" \in DOMAIN given THEN given.chainId
                   ELSE "23448594291968334"
        normalizedTokenFrom == normalizeAddress(given.tokenFrom)
        normalizedTokenTo == normalizeAddress(given.tokenTo)
        isExactOutput == given.amount < 0
    IN  IF isExactOutput
        THEN <<QUOTER, chainId, ToString10(given.amount),
               normalizedTokenTo, normalizedTokenFrom>>
        ELSE <<QUOTER, chainId, ToString10(given.amount),
               normalizedTokenFrom, normalizedTokenTo>>

\* fetchFn(url, ...) is invoked by the step that raises calls.
Requests ==
    /\ requested' = IF calls' > calls
                    THEN Append(requested, QuoteUrl(quoteParams))
                    ELSE requested
    /\ quoteParams' = quoteParams

QuoteInit ==
    /\ NoPoller
    /\ NoGenerate
    /\ NoFn
    /\ quoteParams \in FetchSwapQuoteParams
    /\ requested = <<>>
    /\ maxRetries \in 0..MaxAttempts
    /\ signalAborted = FALSE
    /\ attempt = 0
    /\ lastError = NoError
    /\ pc = "start"
    /\ calls = 0
    /\ settled = <<>>
    /\ sleeps = 0
    /\ result = Pending

\* fetchSwapQuote is called: runs to the first await.
QuoteBegin ==
    /\ UNCHANGED <<pollerVars, genVars, fnVars>>
    /\ pc = "start"
    /\ QuoteLoopHead(0)
    /\ Requests
    /\ UNCHANGED <<maxRetries, signalAborted, lastError, settled, sleeps>>

\* The awaited request settles with r and the loop body runs to its next
\* await or to the end of the call.
QuoteSettle ==
    /\ UNCHANGED <<pollerVars, genVars, fnVars>>
    /\ pc = "fetching"
    /\ \E r \in SettleWays(signalAborted) :
         LET t == QuoteTry(r, attempt, maxRetries, calls)
             c == IF t.kind = "throw"
                  THEN QuoteCatch(t.error, attempt, maxRetries, calls)
                  ELSE t
             last == IF t.kind = "throw" THEN t.error ELSE lastError
         IN  /\ settled' = Append(settled, r)
             /\ lastError' = last
             /\ CASE c.kind = "return" ->
                       /\ pc' = "done"
                       /\ result' = Returned(calls)
                       /\ sleeps' = sleeps
                  [] c.kind = "throw" ->
                       /\ pc' = "done"
                       /\ result' = Thrown(c.error)
                       /\ sleeps' = sleeps
                  [] c.kind = "break" ->
                       /\ pc' = "done"
                       /\ result' = Thrown(QuoteAfterLoop(last, calls))
                       /\ sleeps' = sleeps
                  [] c.kind = "sleep" ->
                       /\ pc' = "sleeping"
                       /\ result' = result
                       /\ sleeps' = sleeps + 1
    /\ UNCHANGED <<maxRetries, signalAborted, attempt, calls, urlVars>>

\* The backoff sleep ends: attempt++ and the next iteration starts.
QuoteWake ==
    /\ UNCHANGED <<pollerVars, genVars, fnVars>>
    /\ pc = "sleeping"
    /\ QuoteLoopHead(attempt + 1)
    /\ Requests
    /\ UNCHANGED <<maxRetries, signalAborted, lastError, settled, sleeps>>

\* The caller aborts the signal it passed, at any moment before the call ends.
QuoteAbort ==
    /\ UNCHANGED <<pollerVars, genVars, fnVars>>
    /\ pc # "done"
    /\ ~signalAborted
    /\ signalAborted' = TRUE
    /\ UNCHANGED <<maxRetries, attempt, lastError, pc, calls, settled, sleeps,
                   result, urlVars>>

QuoteNext == QuoteBegin \/ QuoteSettle \/ QuoteWake \/ QuoteAbort

SpecQuote == QuoteInit /\ [][QuoteNext]_vars

-----------------------------------------------------------------------------
(* withRetry                                                               *)

\* The ways one `await fn()` ends: fulfilled, or rejected with an error of
\* the named class ("DOMAbortError": a DOMException named AbortError).
FnFailures ==
    {"Error", "TypeError", "ApiError", "RateLimitError", "TimeoutError",
     "InsufficientLiquidityError", "AbortError", "DOMAbortError",
     "TokenNotFoundError", "InvalidChainError"}

FnOutcomes == {"ok"} \cup FnFailures

\* The error object fn rejects with in its at-th invocation.
FnError(o, at) ==
    CASE o = "Error" -> PlainError(at)
      [] o = "TypeError" -> NetworkError(at)
      [] o = "ApiError" -> ApiError(500, at)
      [] o = "RateLimitError" -> RateLimitError(at)
      [] o = "TimeoutError" -> TimeoutError(at)
      [] o = "InsufficientLiquidityError" -> InsufficientLiquidityError(at)
      [] o = "AbortError" -> AbortError(at)
      [] o = "DOMAbortError" -> DOMAbortError(at)
      [] o = "TokenNotFoundError" -> TokenNotFoundError(at)
      [] o = "InvalidChainError" -> InvalidChainError(at)

\* RetryCatch testing the last attempt against maxRetries instead of
\* maxRetries - 1.
RetryCatch_LastOffByOne(error, att, max) ==
    IF error.name = "AbortError"
    THEN Throw(error)
    ELSE IF isNonRetryableError(error)
    THEN Throw(error)
    ELSE IF att = max
    THEN Break
    ELSE Sleep

\* The catch block of withRetry for error in attempt att of max.
RetryCatch(error, att, max) ==
    IF error.name = "AbortError"
    THEN Throw(error)
    ELSE IF isNonRetryableError(error)
    THEN Throw(error)
    ELSE IF att = max - 1
    THEN Break
    ELSE Sleep

\* The statement after the loop: throw lastError || new Error(...).
RetryAfterLoop(last, at) == IF last # NoError THEN last ELSE PlainError(at)

\* Top of the loop for attempt att: the loop condition, the check of the
\* caller's signal, and the invocation of fn.
RetryLoopHead(att) ==
    /\ attempt' = att
    /\ IF att < maxRetries
       THEN IF signalAborted
            THEN /\ pc' = "done"
                 /\ result' = Thrown(PlainError(calls))
                 /\ calls' = calls
            ELSE /\ pc' = "fetching"
                 /\ result' = result
                 /\ calls' = calls + 1
       ELSE /\ pc' = "done"
            /\ result' = Thrown(RetryAfterLoop(lastError, calls))
            /\ calls' = calls

RetryInit ==
    /\ NoPoller
    /\ NoGenerate
    /\ NoRequest
    /\ NoFn
    /\ maxRetries \in 0..MaxAttempts
    /\ signalAborted = FALSE
    /\ attempt = 0
    /\ lastError = NoError
    /\ pc = "start"
    /\ calls = 0
    /\ settled = <<>>
    /\ sleeps = 0
    /\ result = Pending

\* withRetry is called: runs to the first await.
RetryBegin ==
    /\ UNCHANGED <<pollerVars, genVars, urlVars, fnVars>>
    /\ pc = "start"
    /\ RetryLoopHead(0)
    /\ UNCHANGED <<maxRetries, signalAborted, lastError, settled, sleeps>>

\* The awaited fn() settles with o and the loop body runs to its next await
\* or to the end of the call.
RetrySettle ==
    /\ UNCHANGED <<pollerVars, genVars, urlVars, fnVars>>
    /\ pc = "fetching"
    /\ \E o \in FnOutcomes :
         LET c == IF o = "ok"
                  THEN Return
                  ELSE RetryCatch(FnError(o, calls), attempt, maxRetries)
             last == IF o = "ok" THEN lastError ELSE FnError(o, calls)
         IN  /\ settled' = Append(settled, o)
             /\ lastError' = last
             /\ CASE c.kind = "return" ->
                       /\ pc' = "done"
                       /\ result' = Returned(calls)
                       /\ sleeps' = sleeps
                  [] c.kind = "throw" ->
                       /\ pc' = "done"
                       /\ result' = Thrown(c.error)
                       /\ sleeps' = sleeps
                  [] c.kind = "break" ->
                       /\ pc' = "done"
                       /\ result' = Thrown(RetryAfterLoop(last, calls))
                       /\ sleeps' = sleeps
                  [] c.kind = "sleep" ->
                       /\ pc' = "sleeping"
                       /\ result' = result
                       /\ sleeps' = sleeps + 1
    /\ UNCHANGED <<maxRetries, signalAborted, attempt, calls>>

\* The backoff sleep ends: attempt++ and the next iteration starts.
RetryWake ==
    /\ UNCHANGED <<pollerVars, genVars, urlVars, fnVars>>
    /\ pc = "sleeping"
    /\ RetryLoopHead(attempt + 1)
    /\ UNCHANGED <<maxRetries, signalAborted, lastError, settled, sleeps>>

\* The caller aborts the signal it passed, at any moment before the call ends.
RetryAbort ==
    /\ UNCHANGED <<pollerVars, genVars, urlVars, fnVars>>
    /\ pc # "done"
    /\ ~signalAborted
    /\ signalAborted' = TRUE
    /\ UNCHANGED <<maxRetries, attempt, lastError, pc, calls, settled, sleeps,
                   result>>

RetryNext == RetryBegin \/ RetrySettle \/ RetryWake \/ RetryAbort

SpecRetry == RetryInit /\ [][RetryNext]_vars

-----------------------------------------------------------------------------
(* QuotePoller                                                             *)

\* Values of the fields of params that the model explores.
Amounts == {1, 2}

Tokens == {"STRK", "USDC"}

\* The Partial<QuotePollerParams> arguments of updateParams: any subset of
\* the fields, each with a value.
Partials ==
    {[f \in {} |-> 0]}
      \cup {[amount |-> a] : a \in Amounts}
      \cup {[tokenTo |-> t] : t \in Tokens}
      \cup {[amount |-> a, tokenTo |-> t] : a \in Amounts, t \in Tokens}

\* Object.assign(target, source).
Assign(target, source) ==
    [k \in DOMAIN target |->
        IF k \in DOMAIN source THEN source[k] ELSE target[k]]

\* The result of a fetchSwapQuote call whose last attempt settles with r.
QuoteFinal(r) ==
    LET t == QuoteTry(r, 0, 1, 1)
        c == IF t.kind = "throw" THEN QuoteCatch(t.error, 0, 1, 1) ELSE t
    IN  CASE c.kind = "return" -> Returned(1)
          [] c.kind = "throw" -> Thrown(c.error)
          [] c.kind = "break" -> Thrown(QuoteAfterLoop(t.error, 1))

\* The poller and what surrounds it as an operation begins, as one record;
\* callbacks collects the callbacks the operation invokes.
State ==
    [isRunning |-> isRunning, intervalId |-> intervalId,
     abortController |-> abortController,
     consecutiveErrors |-> consecutiveErrors, params |-> params,
     armed |-> armed, abortedCtrls |-> abortedCtrls, inflight |-> inflight,
     starts |-> starts, issued |-> issued, callbacks |-> <<>>,
     errorStops |-> errorStops]

\* The next state is st.
Becomes(st) ==
    /\ isRunning' = st.isRunning
    /\ intervalId' = st.intervalId
    /\ abortController' = st.abortController
    /\ consecutiveErrors' = st.consecutiveErrors
    /\ params' = st.params
    /\ armed' = st.armed
    /\ abortedCtrls' = st.abortedCtrls
    /\ inflight' = st.inflight
    /\ starts' = st.starts
    /\ issued' = st.issued
    /\ callbacks' = st.callbacks
    /\ errorStops' = st.errorStops

\* A callback invocation: the callback and its argument.
Callback(cb, arg) == [cb |-> cb, arg |-> arg]

\* callbacks.onStop?.(reason).
OnStop(st, reason) ==
    [st EXCEPT
       !.callbacks = Append(st.callbacks, Callback("onStop", reason)),
       !.errorStops = IF reason = "errors" THEN st.errorStops + 1
                      ELSE st.errorStops]

\* fetchQuote() up to its await: nothing unless running with a controller,
\* else a fetchSwapQuote call with the current params and the controller's
\* signal.
FetchQuoteCall(st) ==
    IF ~st.isRunning \/ st.abortController = 0
    THEN st
    ELSE [st EXCEPT
            !.issued = st.issued + 1,
            !.inflight = st.inflight \cup
                {[id |-> st.issued + 1, ctrl |-> st.abortController,
                  params |-> st.params]}]

\* start() without its guard on isRunning.
Start_AlwaysStarts(st) ==
    LET n == st.starts + 1
        s1 == [st EXCEPT !.isRunning = TRUE,
                         !.consecutiveErrors = 0,
                         !.abortController = n,
                         !.starts = n,
                         !.errorStops = 0]
        s2 == FetchQuoteCall(s1)
    IN  [s2 EXCEPT !.intervalId = n, !.armed = s2.armed \cup {n}]

\* start().
Start(st) ==
    IF st.isRunning
    THEN st
    ELSE LET n == st.starts + 1
             s1 == [st EXCEPT !.isRunning = TRUE,
                              !.consecutiveErrors = 0,
                              !.abortController = n,
                              !.starts = n,
                              !.errorStops = 0]
             s2 == FetchQuoteCall(s1)
         IN  [s2 EXCEPT !.intervalId = n, !.armed = s2.armed \cup {n}]

\* The part stop() and stopDueToErrors() share: clear the flag, the interval
\* and the controller.
Shutdown(st) ==
    LET s1 == [st EXCEPT !.isRunning = FALSE]
        s2 == IF s1.intervalId # 0
              THEN [s1 EXCEPT !.armed = s1.armed \ {s1.intervalId},
                              !.intervalId = 0]
              ELSE s1
    IN  IF s2.abortController # 0
        THEN [s2 EXCEPT
                !.abortedCtrls = s2.abortedCtrls \cup {s2.abortController},
                !.abortController = 0]
        ELSE s2

\* stop() that drops the controller without aborting it.
Stop_ControllerKept(st) ==
    IF ~st.isRunning
    THEN st
    ELSE OnStop([Shutdown(st) EXCEPT !.abortedCtrls = st.abortedCtrls],
                "manual")

\* stop().
Stop(st) == IF ~st.isRunning THEN st ELSE OnStop(Shutdown(st), "manual")

\* stopDueToErrors() that only clears the flag: the interval and the
\* controller are kept.
StopDueToErrors_FlagOnly(st) ==
    OnStop([st EXCEPT !.isRunning = FALSE], "errors")

\* stopDueToErrors().
StopDueToErrors(st) == OnStop(Shutdown(st), "errors")

\* updateParams() that only merges the parameters.
UpdateParams_NoRestart(st, partial) ==
    [st EXCEPT !.params = Assign(st.params, partial)]

\* updateParams(partial).
UpdateParams(st, partial) ==
    LET s1 == [st EXCEPT !.params = Assign(st.params, partial)]
    IN  IF s1.isRunning THEN Start(Stop(s1)) ELSE s1

\* fetchQuote() from its await on without the test for AbortError: every
\* error is counted and reported.
FetchQuoteSettled_AbortCounted(st, f, res) ==
    LET s0 == [st EXCEPT !.inflight = st.inflight \ {f}]
    IN  IF res.status = "returned"
        THEN [s0 EXCEPT
                !.consecutiveErrors = 0,
                !.callbacks =
                    Append(s0.callbacks, Callback("onQuote", f.params))]
        ELSE LET s1 == [s0 EXCEPT
                          !.consecutiveErrors = s0.consecutiveErrors + 1,
                          !.callbacks = Append(s0.callbacks,
                                          Callback("onError", res.error))]
             IN  IF s1.consecutiveErrors >= maxConsecutiveErrors
                 THEN StopDueToErrors(s1)
                 ELSE s1

\* fetchQuote() from its await on without the test of the threshold: errors
\* are counted and reported, and the poller goes on.
FetchQuoteSettled_ThresholdIgnored(st, f, res) ==
    LET s0 == [st EXCEPT !.inflight = st.inflight \ {f}]
    IN  IF res.status = "returned"
        THEN [s0 EXCEPT
                !.consecutiveErrors = 0,
                !.callbacks =
                    Append(s0.callbacks, Callback("onQuote", f.params))]
        ELSE IF res.error.name = "AbortError"
        THEN s0
        ELSE [s0 EXCEPT
                !.consecutiveErrors = s0.consecutiveErrors + 1,
                !.callbacks = Append(s0.callbacks,
                                Callback("onError", res.error))]

\* fetchQuote() from its await on, for the call f that ended with res.
FetchQuoteSettled(st, f, res) ==
    LET s0 == [st EXCEPT !.inflight = st.inflight \ {f}]
    IN  IF res.status = "returned"
        THEN [s0 EXCEPT
                !.consecutiveErrors = 0,
                !.callbacks =
                    Append(s0.callbacks, Callback("onQuote", f.params))]
        ELSE IF res.error.name = "AbortError"
        THEN s0
        ELSE LET s1 == [s0 EXCEPT
                          !.consecutiveErrors = s0.consecutiveErrors + 1,
                          !.callbacks = Append(s0.callbacks,
                                          Callback("onError", res.error))]
             IN  IF s1.consecutiveErrors >= maxConsecutiveErrors
                 THEN StopDueToErrors(s1)
                 ELSE s1

PollerInit ==
    /\ \E threshold \in 1..MaxThreshold : Constructed(threshold)
    /\ NoCall
    /\ NoGenerate
    /\ NoRequest
    /\ NoFn

\* The caller calls start().
PollerStart ==
    /\ isRunning \/ (starts < MaxStarts /\ issued < MaxFetches)
    /\ Becomes(Start(State))
    /\ event' = [op |-> "start"]
    /\ UNCHANGED <<maxConsecutiveErrors, callVars, genVars, urlVars, fnVars>>

\* The caller calls stop().
PollerStop ==
    /\ Becomes(Stop(State))
    /\ event' = [op |-> "stop"]
    /\ UNCHANGED <<maxConsecutiveErrors, callVars, genVars, urlVars, fnVars>>

\* The caller calls updateParams(partial).
PollerUpdateParams ==
    /\ isRunning => (starts < MaxStarts /\ issued < MaxFetches)
    /\ \E partial \in Partials :
         /\ Becomes(UpdateParams(State, partial))
         /\ event' = [op |-> "updateParams", partial |-> partial]
    /\ UNCHANGED <<maxConsecutiveErrors, callVars, genVars, urlVars, fnVars>>

\* An armed interval fires: its callback calls fetchQuote().
PollerTick ==
    /\ issued < MaxFetches
    /\ \E t \in armed :
         /\ Becomes(FetchQuoteCall(State))
         /\ event' = [op |-> "tick", timer |-> t]
    /\ UNCHANGED <<maxConsecutiveErrors, callVars, genVars, urlVars, fnVars>>

\* A fetchSwapQuote call in flight ends, its last attempt settling in one of
\* the ways the state of its signal allows, and fetchQuote() resumes.
PollerFetchSettles ==
    /\ \E f \in inflight :
         \E r \in SettleWays(f.ctrl \in abortedCtrls) :
           /\ Becomes(FetchQuoteSettled(State, f, QuoteFinal(r)))
           /\ event' = [op |-> "settle", fetch |-> f, way |-> r]
    /\ UNCHANGED <<maxConsecutiveErrors, callVars, genVars, urlVars, fnVars>>

PollerNext ==
    \/ PollerStart
    \/ PollerStop
    \/ PollerUpdateParams
    \/ PollerTick
    \/ PollerFetchSettles

SpecPoller == PollerInit /\ [][PollerNext]_vars

\* A poller none of whose fetches succeeds and on which the caller calls
\* start() once and never stop() nor updateParams(): every fetch that is not
\* cancelled fails with an error other than AbortError.
FailingStart ==
    /\ starts = 0
    /\ PollerStart

FailingFetchSettles ==
    /\ PollerFetchSettles
    /\ QuoteFinal(event'.way).status = "thrown"
    /\ event'.fetch.ctrl \notin abortedCtrls
         => QuoteFinal(event'.way).error.name # "AbortError"

FailingNext ==
    \/ FailingStart
    \/ PollerTick
    \/ FailingFetchSettles

\* The interval fires as long as it is armed, and every fetch in flight
\* ends: fetchSwapQuote bounds each attempt by its timeout and the number of
\* attempts by maxRetries.
SpecFailing ==
    /\ PollerInit
    /\ [][FailingNext]_vars
    /\ WF_vars(PollerTick)
    /\ WF_vars(FailingFetchSettles)

-----------------------------------------------------------------------------
(* generateSwapCalls                                                       *)

\* ROUTER_ADDRESSES[CHAIN_IDS.MAINNET].
MainnetRouter ==
    <<"0", "x", "0", "1", "9", "9", "7", "4", "1", "8", "2", "2", "c",
    "2", "d", "c", "7", "2", "2", "f", "6", "f", "6", "0", "5", "2",
    "0", "4", "f", "3", "5", "e", "5", "6", "d", "b", "c", "2", "3",
    "b", "c", "e", "e", "d", "5", "4", "8", "1", "8", "1", "6", "8",
    "c", "4", "c", "4", "9", "e", "4", "f", "b", "8", "7", "3", "7",
    "e">>

\* ROUTER_ADDRESSES[CHAIN_IDS.SEPOLIA].
SepoliaRouter ==
    <<"0", "x", "0", "0", "4", "5", "f", "9", "3", "3", "a", "d", "f",
    "0", "6", "0", "7", "2", "9", "2", "4", "6", "8", "a", "d", "1",
    "c", "1", "d", "e", "d", "a", "a", "7", "4", "d", "5", "a", "d",
    "1", "6", "6", "3", "9", "2", "5", "9", "0", "e", "7", "2", "6",
    "7", "6", "a", "3", "4", "d", "0", "1", "d", "7", "b", "7", "6",
    "3">>

\* ROUTER_ADDRESSES: the chains that have a router.
ROUTER_ADDRESSES ==
    (CHAIN_IDS.MAINNET :> MainnetRouter) @@ (CHAIN_IDS.SEPOLIA :> SepoliaRouter)

DEFAULT_SLIPPAGE_PERCENT == 5

\* The largest number of splits of the quotes explored.
MaxSplits == 2

\* Two pools, as route nodes.
Hops ==
    {[pool_key |-> [token0 |-> <<"0", "x", "1">>,
                    token1 |-> <<"0", "x", "0", "C">>,
                    fee |-> <<"0", "x", "5">>,
                    tick_spacing |-> 10,
                    extension |-> <<"0", "x", "0">>],
      sqrt_ratio_limit |-> <<"1", "8">>,
      skip_ahead |-> 0],
     [pool_key |-> [token0 |-> <<"0", "x", "0", "C">>,
                    token1 |-> <<"0", "x", "A", "b">>,
                    fee |-> <<"0", "x", "2">>,
                    tick_spacing |-> 1,
                    extension |-> <<"0", "x", "0">>],
      sqrt_ratio_limit |-> <<"0", "x", "f", "f">>,
      skip_ahead |-> 3]}

\* Routes of one hop and of two hops.
Routes ==
    {<<h>> : h \in Hops}
      \cup {<<pair[1], pair[2]>> :
              pair \in {pr \in Hops \X Hops : pr[1] # pr[2]}}

\* Splits: amount_specified is a decimal string, negative for an exact output.
Splits ==
    {[amount_specified |-> a, route |-> r] :
        a \in {<<"-", "5">>, <<"7">>}, r \in {rt \in Routes : Len(rt) = 1}}
      \cup {[amount_specified |-> <<"3">>, route |-> r] :
              r \in {rt \in Routes : Len(rt) = 2}}

\* The sequences over S of length at most n.
RECURSIVE SeqsUpTo(_, _)
SeqsUpTo(S, n) ==
    IF n = 0
    THEN {<<>>}
    ELSE LET shorter == SeqsUpTo(S, n - 1)
         IN  shorter \cup {Append(q, x) : q \in shorter, x \in S}

\* Quotes as fetchSwapQuote returns them: total is never negative.
Quotes ==
    {[impact |-> 0, total |-> t, splits |-> sp] :
        t \in {0, 7, 50}, sp \in SeqsUpTo(Splits, MaxSplits)}

\* The optional fields of GenerateSwapCallsParams, each absent or present.
Absent == [f \in {} |-> 0]

SlippageOptions == {Absent} \cup {[slippagePercent |-> pct] : pct \in {0, 10}}

RouterOptions ==
    {Absent, [routerAddress |-> <<"0", "x", "9">>], [routerAddress |-> <<>>]}

ChainOptions ==
    {Absent, [chainId |-> CHAIN_IDS.SEPOLIA], [chainId |-> "1"]}

\* The params generateSwapCalls is called with.
GenerateSwapCallsParams ==
    {[called |-> TRUE, sellToken |-> tk.sell, buyToken |-> tk.buy,
      minimumReceived |-> m, quote |-> q] @@ sl @@ ro @@ ch :
        tk \in {[sell |-> <<"0", "x", "0", "1">>,
                 buy |-> <<"0", "X", "a", "B">>],
                [sell |-> <<"1", "7", "1">>, buy |-> <<"0", "x", "0", "C">>]},
        m \in {0, 49},
        q \in Quotes,
        sl \in SlippageOptions,
        ro \in RouterOptions,
        ch \in ChainOptions}

\* A destructured field with its default value.
FieldOr(given, field, default) ==
    IF field \in DOMAIN given THEN given[field] ELSE default

\* A SwapCall.
SwapCall(contractAddress, entrypoint, calldata) ==
    [contractAddress |-> contractAddress, entrypoint |-> entrypoint,
     calldata |-> calldata]

\* encodeRouteNode that compares the current token and token1 as strings.
encodeRouteNode_StringCompare(routeNode, currentToken) ==
    LET pool_key == routeNode.pool_key
        isToken1 == currentToken = pool_key.token1
        sqrtRatioLimit == BigInt(routeNode.sqrt_ratio_limit)
    IN  [nextToken |-> IF isToken1 THEN pool_key.token0 ELSE pool_key.token1,
         calldata |-> <<pool_key.token0,
                        pool_key.token1,
                        pool_key.fee,
                        toHex(pool_key.tick_spacing),
                        pool_key.extension,
                        toHex(Low128(sqrtRatioLimit)),
                        toHex(High128(sqrtRatioLimit)),
                        toHex(routeNode.skip_ahead)>>]

\* encodeRouteNode that emits the pool's tokens in the direction of the hop:
\* the current token first.
encodeRouteNode_CurrentFirst(routeNode, currentToken) ==
    LET pool_key == routeNode.pool_key
        isToken1 == BigInt(currentToken) = BigInt(pool_key.token1)
        sqrtRatioLimit == BigInt(routeNode.sqrt_ratio_limit)
    IN  [nextToken |-> IF isToken1 THEN pool_key.token0 ELSE pool_key.token1,
         calldata |-> <<IF isToken1 THEN pool_key.token1 ELSE pool_key.token0,
                        IF isToken1 THEN pool_key.token0 ELSE pool_key.token1,
                        pool_key.fee,
                        toHex(pool_key.tick_spacing),
                        pool_key.extension,
                        toHex(Low128(sqrtRatioLimit)),
                        toHex(High128(sqrtRatioLimit)),
                        toHex(routeNode.skip_ahead)>>]

\* encodeRouteNode(routeNode, currentToken).
encodeRouteNode(routeNode, currentToken) ==
    LET pool_key == routeNode.pool_key
        isToken1 == BigInt(currentToken) = BigInt(pool_key.token1)
        sqrtRatioLimit == BigInt(routeNode.sqrt_ratio_limit)
    IN  [nextToken |-> IF isToken1 THEN pool_key.token0 ELSE pool_key.token1,
         calldata |-> <<pool_key.token0,
                        pool_key.token1,
                        pool_key.fee,
                        toHex(pool_key.tick_spacing),
                        pool_key.extension,
                        toHex(Low128(sqrtRatioLimit)),
                        toHex(High128(sqrtRatioLimit)),
                        toHex(routeNode.skip_ahead)>>]

\* encodeRoute(route, targetToken): the reduce over the route.
RECURSIVE encodeRoute(_, _)
encodeRoute(route, targetToken) ==
    IF route = <<>>
    THEN [token |-> targetToken, encoded |-> <<>>]
    ELSE LET memo == encodeRoute(SubSeq(route, 1, Len(route) - 1),
                                 targetToken)
             node == encodeRouteNode(route[Len(route)], memo.token)
         IN  [token |-> node.nextToken,
              encoded |-> memo.encoded \o node.calldata]

\* The payload of one split with the amount as it is specified, sign
\* included.
SplitCalldata_SignedAmount(split, targetToken) ==
    <<toHex(Len(split.route))>>
      \o encodeRoute(split.route, targetToken).encoded
      \o <<targetToken,
           toHex(BigInt(split.amount_specified)),
           <<"0", "x", "1">>>>

\* The payload of one split: what both swap generators emit for it.
SplitCalldata(split, targetToken) ==
    <<toHex(Len(split.route))>>
      \o encodeRoute(split.route, targetToken).encoded
      \o <<targetToken,
           toHex(abs(BigInt(split.amount_specified))),
           <<"0", "x", "1">>>>

\* generateSingleRouteSwap(split, targetToken, routerAddress).
generateSingleRouteSwap(split, targetToken, routerAddress) ==
    <<SwapCall(routerAddress, "multihop_swap",
               SplitCalldata(split, targetToken))>>

\* The reduce of generateMultiRouteSwap over the splits.
RECURSIVE MultiRouteCalldata(_, _)
MultiRouteCalldata(splits, targetToken) ==
    IF splits = <<>>
    THEN <<>>
    ELSE MultiRouteCalldata(SubSeq(splits, 1, Len(splits) - 1), targetToken)
           \o SplitCalldata(splits[Len(splits)], targetToken)

\* generateMultiRouteSwap that encodes the splits from the last to the first.
generateMultiRouteSwap_LastFirst(splits, targetToken, routerAddress) ==
    <<SwapCall(routerAddress, "multi_multihop_swap",
               <<toHex(Len(splits))>>
                 \o MultiRouteCalldata(
                        [i \in 1..Len(splits) |-> splits[Len(splits) + 1 - i]],
                        targetToken))>>

\* generateMultiRouteSwap(splits, targetToken, routerAddress).
generateMultiRouteSwap(splits, targetToken, routerAddress) ==
    <<SwapCall(routerAddress, "multi_multihop_swap",
               <<toHex(Len(splits))>>
                 \o MultiRouteCalldata(splits, targetToken))>>

\* The router: customRouterAddress ?? ROUTER_ADDRESSES[chainId], chainId
\* being MAINNET when not given.  A chain without a router gives undefined,
\* which like "" fails the test !routerAddress.
RouterAddress(given) ==
    IF "routerAddress" \in DOMAIN given
    THEN given.routerAddress
    ELSE FieldOr(ROUTER_ADDRESSES,
                 FieldOr(given, "chainId", CHAIN_IDS.MAINNET), <<>>)

\* transferCall.
TransferCall(given) ==
    LET slippagePercent ==
            FieldOr(given, "slippagePercent", DEFAULT_SLIPPAGE_PERCENT)
        totalWithSlippage == addSlippage(given.quote.total, slippagePercent)
    IN  SwapCall(normalizeAddress(given.sellToken), "transfer",
                 <<RouterAddress(given), toHex(totalWithSlippage),
                   <<"0", "x", "0">>>>)

\* clearCall.
ClearCall(given) ==
    SwapCall(RouterAddress(given), "clear",
             <<normalizeAddress(given.sellToken)>>)

\* clearMinimumCall.
ClearMinimumCall(given) ==
    SwapCall(RouterAddress(given), "clear_minimum",
             <<normalizeAddress(given.buyToken),
               toHex(given.minimumReceived), <<"0", "x", "0">>>>)

\* swapCalls: the swap call of the single-route or multi-route generator,
\* then clearMinimumCall pushed after it.
SwapCalls(given) ==
    LET splits == given.quote.splits
        normalizedBuyToken == normalizeAddress(given.buyToken)
    IN  (IF Len(splits) = 1
         THEN generateSingleRouteSwap(splits[1], normalizedBuyToken,
                                      RouterAddress(given))
         ELSE generateMultiRouteSwap(splits, normalizedBuyToken,
                                     RouterAddress(given)))
          \o <<ClearMinimumCall(given)>>

\* A SwapCallsResult.
SwapCallsResult(transferCall, swapCalls, clearCall, allCalls) ==
    [status |-> "returned", transferCall |-> transferCall,
     swapCalls |-> swapCalls, clearCall |-> clearCall, allCalls |-> allCalls]

\* generateSwapCalls that appends clear_minimum after clear.
generateSwapCalls_ClearMinimumLast(given) ==
    IF RouterAddress(given) = <<>>
    THEN Thrown(InvalidChainError(0))
    ELSE IF Len(given.quote.splits) = 0
    THEN SwapCallsResult(TransferCall(given), <<>>, ClearCall(given),
                         <<TransferCall(given), ClearCall(given)>>)
    ELSE SwapCallsResult(TransferCall(given), SwapCalls(given),
                         ClearCall(given),
                         <<TransferCall(given), SwapCalls(given)[1],
                           ClearCall(given), SwapCalls(given)[2]>>)

\* generateSwapCalls that does not return early for an empty split list.
generateSwapCalls_NoEarlyReturn(given) ==
    IF RouterAddress(given) = <<>>
    THEN Thrown(InvalidChainError(0))
    ELSE SwapCallsResult(TransferCall(given), SwapCalls(given),
                         ClearCall(given),
                         <<TransferCall(given)>> \o SwapCalls(given)
                           \o <<ClearCall(given)>>)

\* generateSwapCalls(params).
generateSwapCalls(given) ==
    IF RouterAddress(given) = <<>>
    THEN Thrown(InvalidChainError(0))
    ELSE IF Len(given.quote.splits) = 0
    THEN SwapCallsResult(TransferCall(given), <<>>, ClearCall(given),
                         <<TransferCall(given), ClearCall(given)>>)
    ELSE SwapCallsResult(TransferCall(given), SwapCalls(given),
                         ClearCall(given),
                         <<TransferCall(given)>> \o SwapCalls(given)
                           \o <<ClearCall(given)>>)

\* approveCall of prepareSwapCalls.
ApproveCall(given) ==
    LET slippagePercent ==
            FieldOr(given, "slippagePercent", DEFAULT_SLIPPAGE_PERCENT)
        totalWithSlippage == addSlippage(given.quote.total, slippagePercent)
    IN  SwapCall(normalizeAddress(given.sellToken), "approve",
                 <<RouterAddress(given), toHex(totalWithSlippage),
                   <<"0", "x", "0">>>>)

\* prepareSwapCalls that puts the approve call after the other calls.
prepareSwapCalls_ApproveLast(given) ==
    LET res == generateSwapCalls(given)
    IN  IF res.status = "thrown"
        THEN res
        ELSE IF RouterAddress(given) = <<>>
        THEN Thrown(InvalidChainError(0))
        ELSE [approveCall |-> ApproveCall(given),
              allCalls |-> res.allCalls \o <<ApproveCall(given)>>] @@ res

\* prepareSwapCalls(params): an error of generateSwapCalls propagates; the
\* result is { ...result, approveCall, allCalls }.
prepareSwapCalls(given) ==
    LET res == generateSwapCalls(given)
    IN  IF res.status = "thrown"
        THEN res
        ELSE IF RouterAddress(given) = <<>>
        THEN Thrown(InvalidChainError(0))
        ELSE [approveCall |-> ApproveCall(given),
              allCalls |-> <<ApproveCall(given)>> \o res.allCalls] @@ res

\* The caller has chosen the params of a generateSwapCalls or
\* prepareSwapCalls call.
CallsInit ==
    /\ genParams \in GenerateSwapCallsParams
    /\ genResult = NoResult
    /\ genOp = "none"
    /\ NoCall
    /\ NoPoller
    /\ NoRequest
    /\ NoFn

\* generateSwapCalls runs to its return or throw.
GenerateSwapCalls ==
    /\ genOp = "none"
    /\ genOp' = "generateSwapCalls"
    /\ genResult' = generateSwapCalls(genParams)
    /\ UNCHANGED <<genParams, callVars, pollerVars, urlVars, fnVars>>

\* prepareSwapCalls runs to its return or throw.
PrepareSwapCalls ==
    /\ genOp = "none"
    /\ genOp' = "prepareSwapCalls"
    /\ genResult' = prepareSwapCalls(genParams)
    /\ UNCHANGED <<genParams, callVars, pollerVars, urlVars, fnVars>>

CallsNext == GenerateSwapCalls \/ PrepareSwapCalls

SpecCalls == CallsInit /\ [][CallsNext]_vars

-----------------------------------------------------------------------------
(* Pure functions: quote normalization, splitU256, normalizeAddress,       *)
(* TokenRegistry and resolveToken                                          *)

\* A total_calculated of the API response: a string, or a number.  A number
\* is kept in halves (halves = 3 is 1.5) so that non-integers exist.
StringTotal(chars) == [type |-> "string", chars |-> chars]

NumberTotal(halves) == [type |-> "number", halves |-> halves]

\* Math.floor of a number kept in halves.
Floor(halves) == halves \div 2

\* parseTotalCalculated(totalCalculated).
parseTotalCalculated(totalCalculated) ==
    LET value == IF totalCalculated.type = "string"
                 THEN BigInt(totalCalculated.chars)
                 ELSE Floor(totalCalculated.halves)
    IN  IF value < 0 THEN -value ELSE value

\* The SwapQuote fetchSwapQuote returns for the payload data.
SwapQuoteOf(data) ==
    [impact |-> data.price_impact,
     total |-> parseTotalCalculated(data.total_calculated),
     splits |-> data.splits]

\* Payloads of a successful response.
Payloads ==
    {[price_impact |-> i, total_calculated |-> t, splits |-> sp] :
        i \in {0, 1},
        t \in {StringTotal(c) :
                 c \in {<<"0">>, <<"7">>, <<"-", "7">>, <<"1", "0", "0">>,
                        <<"-", "1", "0", "0">>}}
              \cup {NumberTotal(h) : h \in {0, 14, -14, 200, -200, 3, -3}},
        sp \in {<<>>} \cup {<<x>> : x \in {y \in Splits : Len(y.route) = 2}}}

\* A bigint too wide for the integers of the model is the sequence of its
\* hexadecimal digits, most significant first, without leading zeros.
RECURSIVE StripZeros(_)
StripZeros(digits) ==
    IF Len(digits) > 1 /\ digits[1] = "0"
    THEN StripZeros(Tail(digits))
    ELSE digits

\* n copies of the digit c.
Repeat(c, n) == [i \in 1..n |-> c]

\* digits % 2n ** 128n: the last 32 digits.
LowDigits(digits) ==
    IF Len(digits) <= LimbDigits
    THEN digits
    ELSE StripZeros(SubSeq(digits, Len(digits) - LimbDigits + 1, Len(digits)))

\* digits >> 128n: the digits before the last 32.
HighDigits(digits) ==
    IF Len(digits) <= LimbDigits
    THEN <<"0">>
    ELSE SubSeq(digits, 1, Len(digits) - LimbDigits)

\* splitU256 that shifts by 124 bits instead of 128.
splitU256_ShortShift(digits) ==
    [low |-> <<"0", "x">> \o LowDigits(digits),
     high |-> <<"0", "x">> \o
                (IF Len(digits) <= LimbDigits - 1
                 THEN <<"0">>
                 ELSE SubSeq(digits, 1, Len(digits) - LimbDigits + 1))]

\* splitU256(value), value given by its digits; toHex of a bigint is 0x and
\* its digits.
splitU256(digits) ==
    [low |-> <<"0", "x">> \o LowDigits(digits),
     high |-> <<"0", "x">> \o HighDigits(digits)]

\* Values from 0 to 2^256 - 1: one digit, two digits, and around 32 and 64
\* digits, with zeros, with f and with a in the middle.
WideValues ==
    {<<"0">>, <<"7">>, <<"f">>}
      \cup {<<first>> \o Repeat(fill, len - 2) \o <<last>> :
              first \in {"1", "f"}, fill \in {"0", "a", "f"},
              last \in {"0", "7"}, len \in {2, 31, 32, 33, 34, 63, 64}}

\* Address strings: 0x or 0X and up to MaxAddressDigits digits of either
\* case, and decimal strings.
MaxAddressDigits == 2

AddressDigits == {"0", "1", "a", "A"}

AddressTexts ==
    {pre \o d : pre \in {<<"0", "x">>, <<"0", "X">>},
                d \in SeqsUpTo(AddressDigits, MaxAddressDigits) \ {<<>>}}
      \cup {<<"0">>, <<"1">>, <<"1", "0">>, <<"0", "1", "0">>, <<"1", "6">>,
            <<"1", "7">>}

\* The letters, for String.prototype.toUpperCase().
LowerLetters ==
    <<"a", "b", "c", "d", "e", "f", "g", "h", "i", "j", "k", "l", "m",
      "n", "o", "p", "q", "r", "s", "t", "u", "v", "w", "x", "y", "z">>

UpperLetters ==
    <<"A", "B", "C", "D", "E", "F", "G", "H", "I", "J", "K", "L", "M",
      "N", "O", "P", "Q", "R", "S", "T", "U", "V", "W", "X", "Y", "Z">>

toUpperCase(str) ==
    [i \in 1..Len(str) |->
        IF \E j \in 1..26 : LowerLetters[j] = str[i]
        THEN UpperLetters[CHOOSE j \in 1..26 : LowerLetters[j] = str[i]]
        ELSE str[i]]

\* isAddress(value): /^0x[0-9a-fA-F]+$/.
isAddress(value) ==
    /\ Len(value) >= 3
    /\ value[1] = "0"
    /\ value[2] = "x"
    /\ \A i \in 3..Len(value) :
         \/ \E j \in 1..16 : Digits[j] = value[i]
         \/ \E j \in 1..6 : UpperDigits[j] = value[i]

\* A TokenInfo.
TokenInfo(symbol, address) == [symbol |-> symbol, address |-> address]

\* The first two of MAINNET_TOKENS, ETH and STRK, their addresses cut to the
\* first four digits (the integers of the model have 32 bits).
MAINNET_TOKENS ==
    <<TokenInfo(<<"E", "T", "H">>, <<"0", "x", "0", "4", "9", "d">>),
      TokenInfo(<<"S", "T", "R", "K">>, <<"0", "x", "0", "4", "7", "1">>)>>

\* A TokenRegistry: its two maps.
EmptyRegistry ==
    [symbolMap |-> [k \in {} |-> 0], addressMap |-> [k \in {} |-> 0]]

\* Map.prototype.set(key, value).
MapSet(map, key, value) ==
    [k \in DOMAIN map \cup {key} |-> IF k = key THEN value ELSE map[k]]

\* TokenRegistry.register(token).
register(reg, token) ==
    LET upperSymbol == toUpperCase(token.symbol)
        normalizedAddress == normalizeAddress(token.address)
        normalizedToken == [token EXCEPT !.address = normalizedAddress]
    IN  [symbolMap |-> MapSet(reg.symbolMap, upperSymbol, normalizedToken),
         addressMap |->
             MapSet(reg.addressMap, normalizedAddress, normalizedToken)]

\* register applied to the tokens of a list, in order.
RECURSIVE RegisterAll(_, _)
RegisterAll(reg, tokens) ==
    IF tokens = <<>>
    THEN reg
    ELSE RegisterAll(register(reg, Head(tokens)), Tail(tokens))

\* new TokenRegistry(tokens).
TokenRegistry(tokens) ==
    RegisterAll(RegisterAll(EmptyRegistry, MAINNET_TOKENS), tokens)

\* The value of a lookup that finds nothing.
Undefined == [undefined |-> TRUE]

\* getBySymbol that looks the symbol up as it is written.
getBySymbol_CaseSensitive(reg, symbol) ==
    IF symbol \in DOMAIN reg.symbolMap
    THEN reg.symbolMap[symbol]
    ELSE Undefined

\* TokenRegistry.getBySymbol(symbol).
getBySymbol(reg, symbol) ==
    IF toUpperCase(symbol) \in DOMAIN reg.symbolMap
    THEN reg.symbolMap[toUpperCase(symbol)]
    ELSE Undefined

\* TokenRegistry.getByAddress(address).
getByAddress(reg, address) ==
    IF normalizeAddress(address) \in DOMAIN reg.addressMap
    THEN reg.addressMap[normalizeAddress(address)]
    ELSE Undefined

\* resolveToken(tokenIdentifier, registry).
resolveToken(tokenIdentifier, reg) ==
    IF isAddress(tokenIdentifier)
    THEN Returned(normalizeAddress(tokenIdentifier))
    ELSE LET token == getBySymbol(reg, tokenIdentifier)
         IN  IF token # Undefined
             THEN Returned(token.address)
             ELSE Thrown(TokenNotFoundError(0))

\* Identifiers resolveToken is called with: symbols in several cases, an
\* unknown symbol, addresses in and out of the registry, and 0X strings,
\* which isAddress does not accept.
TokenIdentifiers ==
    {<<"E", "T", "H">>, <<"e", "t", "h">>, <<"E", "t", "h">>,
     <<"s", "t", "r", "k">>, <<"F", "O", "O">>, <<"f", "o", "o">>,
     <<"B", "A", "R">>, <<"0", "x", "0", "4", "9", "d">>,
     <<"0", "x", "0", "0", "A", "b">>, <<"0", "x", "9">>,
     <<"0", "X", "a", "b">>, <<"0", "x">>}

\* Tokens a caller registers on top of MAINNET_TOKENS.
CustomTokens ==
    {TokenInfo(<<"F", "o", "o">>, <<"0", "x", "0", "1", "2", "3">>),
     TokenInfo(<<"e", "t", "h">>, <<"0", "x", "9">>),
     TokenInfo(<<"f", "o", "o">>, <<"0", "X", "A", "B">>)}

\* The most tokens a caller registers.
MaxCustomTokens == 2

\* Tokens the current one of a hop can be: the pool tokens written in other
\* ways, and a token of no pool.
CurrentTokens ==
    {<<"0", "x", "1">>, <<"0", "x", "0", "C">>, <<"0", "x", "c">>,
     <<"1", "2">>, <<"0", "X", "A", "B">>, <<"0", "x", "5">>}

\* NaN and the other values of a JavaScript number.
NaN == [nan |-> TRUE]

Num(n) == [nan |-> FALSE, value |-> n]

\* retryAfter: null, or a header with its text and with what
\* new Date(text.trim()).getTime() - Date.now() evaluates to at the call.
NullHeader == [isNull |-> TRUE]

Header(text, dateDelay) ==
    [isNull |-> FALSE, text |-> text, dateDelay |-> dateDelay]

\* str.trim(), for strings whose white space is the space character.
RECURSIVE trim(_)
trim(str) ==
    IF str = <<>>
    THEN str
    ELSE IF Head(str) = " "
    THEN trim(Tail(str))
    ELSE IF str[Len(str)] = " "
    THEN trim(SubSeq(str, 1, Len(str) - 1))
    ELSE str

\* The longest prefix of str made of decimal digits.
RECURSIVE LeadingDigits(_)
LeadingDigits(str) ==
    IF str = <<>> \/ Head(str) \notin {Digits[i] : i \in 1..10}
    THEN <<>>
    ELSE <<Head(str)>> \o LeadingDigits(Tail(str))

\* parseInt(str, 10): an optional sign and the digits that follow, NaN when
\* there is none.
parseInt(str) ==
    LET signed == str # <<>> /\ Head(str) \in {"-", "+"}
        digits == LeadingDigits(IF signed THEN Tail(str) ELSE str)
    IN  IF digits = <<>>
        THEN NaN
        ELSE IF signed /\ Head(str) = "-"
        THEN Num(-ParseDigits(digits, 10))
        ELSE Num(ParseDigits(digits, 10))

\* The results of parseRetryAfter: null or a number of milliseconds.
NullDelay == [isNull |-> TRUE]

Delay(ms) == [isNull |-> FALSE, ms |-> ms]

\* parseRetryAfter(retryAfter).
parseRetryAfter(retryAfter) ==
    IF retryAfter.isNull \/ retryAfter.text = <<>>
    THEN NullDelay
    ELSE LET trimmed == trim(retryAfter.text)
             seconds == parseInt(trimmed)
             delay == retryAfter.dateDelay
         IN  IF trimmed = <<>>
             THEN NullDelay
             ELSE IF ~seconds.nan /\ seconds.value >= 0
             THEN Delay(seconds.value * 1000)
             ELSE IF ~delay.nan /\ delay.value > 0
             THEN Delay(delay.value)
             ELSE NullDelay

\* The values of Math.random(), in quarters: 0, 1/4, 1/2, 3/4.
MathRandom == {0, 1, 2, 3}

\* calculateBackoff that caps the Retry-After delay at maxBackoff.
calculateBackoff_HintCapped(att, baseBackoff, maxBackoff, retryAfter, random) ==
    LET retryAfterDelay == parseRetryAfter(retryAfter)
        raw == baseBackoff * 2 ^ att
        delay == IF raw > maxBackoff THEN maxBackoff ELSE raw
        minDelay == delay \div 2
        jitter == (random * (delay - minDelay)) \div Cardinality(MathRandom)
    IN  IF /\ ~retryAfter.isNull
           /\ retryAfter.text # <<>>
           /\ ~retryAfterDelay.isNull
           /\ retryAfterDelay.ms > 0
        THEN IF retryAfterDelay.ms > maxBackoff
             THEN maxBackoff
             ELSE retryAfterDelay.ms
        ELSE minDelay + jitter

\* calculateBackoff(att, baseBackoff, maxBackoff, retryAfter), random
\* being the value Math.random() returns.  The delays explored are multiples
\* of 8, so that the half and the quarters of the half are integers.
calculateBackoff(att, baseBackoff, maxBackoff, retryAfter, random) ==
    LET retryAfterDelay == parseRetryAfter(retryAfter)
        raw == baseBackoff * 2 ^ att
        delay == IF raw > maxBackoff THEN maxBackoff ELSE raw
        minDelay == delay \div 2
        jitter == (random * (delay - minDelay)) \div Cardinality(MathRandom)
    IN  IF /\ ~retryAfter.isNull
           /\ retryAfter.text # <<>>
           /\ ~retryAfterDelay.isNull
           /\ retryAfterDelay.ms > 0
        THEN retryAfterDelay.ms
        ELSE minDelay + jitter

\* Retry-After headers: none, empty, blank, seconds (zero, positive, with
\* spaces around, above maxBackoff), an HTTP date in the future and one in
\* the past, and text that is neither.
RetryAfterHeaders ==
    {NullHeader,
     Header(<<>>, NaN),
     Header(<<" ">>, NaN),
     Header(<<"0">>, NaN),
     Header(<<"2">>, NaN),
     Header(<<" ", "7", " ">>, NaN),
     Header(<<"1", "2">>, NaN),
     Header(<<"W", "e", "d", ",", " ", "2", "1">>, Num(2500)),
     Header(<<"W", "e", "d", ",", " ", "2", "1">>, Num(-40000)),
     Header(<<"s", "o", "o", "n">>, NaN)}

\* The calls of the pure functions: the function and its arguments.  Quote
\* normalization and normalizeAddress are applied to two inputs each, so
\* that their results can be compared.  calculateBackoff gets the attempt,
\* baseBackoff and maxBackoff (the default configuration among them) and a
\* header; the slippage functions an amount and a percentage; the registry
\* the caller's tokens, a symbol and an address to look up.
FnCall(fn, args) == [called |-> TRUE, fn |-> fn, args |-> args]

FnCalls ==
    {FnCall("normalizeQuote", <<d1, d2>>) : d1 \in Payloads, d2 \in Payloads}
      \cup {FnCall("splitU256", <<v>>) : v \in WideValues}
      \cup {FnCall("encodeRouteNode", <<h, t>>) :
              h \in Hops, t \in CurrentTokens}
      \cup {FnCall("encodeRoute", <<r, t1, t2>>) :
              r \in Routes \cup {<<>>},
              t1 \in CurrentTokens, t2 \in CurrentTokens}
      \cup {FnCall("normalizeAddress", <<x, y>>) :
              x \in AddressTexts, y \in AddressTexts}
      \cup {FnCall("calculateBackoff",
                   <<att, cfg.baseBackoff, cfg.maxBackoff, header>>) :
              att \in {0, 1, 2, 3},
              cfg \in {[baseBackoff |-> 1000, maxBackoff |-> 5000],
                       [baseBackoff |-> 16, maxBackoff |-> 8],
                       [baseBackoff |-> 8, maxBackoff |-> 1000]},
              header \in RetryAfterHeaders}
      \cup {FnCall("slippage", <<amount, pct>>) :
              amount \in {-250, -7, -1, 0, 1, 7, 19, 20, 50, 99, 100, 101,
                          1000},
              pct \in {-5, 0, 1, 5, 10, 33, 100, 150}}
      \cup {FnCall("lookup", <<customs, symbol, address>>) :
              customs \in SeqsUpTo(CustomTokens, MaxCustomTokens),
              symbol \in {<<"E", "T", "H">>, <<"f", "O", "o">>,
                          <<"B", "A", "R">>},
              address \in {<<"0", "x", "4", "9", "D">>,
                           <<"0", "x", "0", "4", "7", "1">>,
                           <<"0", "x", "1", "2", "3">>,
                           <<"0", "x", "0", "9">>,
                           <<"0", "x", "a", "b">>,
                           <<"0", "x", "7">>}}
      \cup {FnCall("resolveToken", <<id, customs>>) :
              id \in TokenIdentifiers,
              customs \in SeqsUpTo(CustomTokens, MaxCustomTokens)}

FnInit ==
    /\ fnCall \in FnCalls
    /\ fnResult = NoResult
    /\ NoCall
    /\ NoPoller
    /\ NoGenerate
    /\ NoRequest

\* The function fn is applied to its arguments and yields res.
Applies(fn, res) ==
    /\ fnResult = NoResult
    /\ fnCall.fn = fn
    /\ fnResult' = res
    /\ UNCHANGED <<fnCall, callVars, pollerVars, genVars, urlVars>>

\* fetchSwapQuote turns each of two payloads into a SwapQuote.
NormalizeQuote ==
    Applies("normalizeQuote",
            Returned(<<SwapQuoteOf(fnCall.args[1]),
                       SwapQuoteOf(fnCall.args[2])>>))

SplitU256 == Applies("splitU256", Returned(splitU256(fnCall.args[1])))

EncodeRouteNode ==
    Applies("encodeRouteNode",
            Returned(encodeRouteNode(fnCall.args[1], fnCall.args[2])))

\* encodeRoute is applied to a route from each of two starting tokens.
EncodeRoute ==
    Applies("encodeRoute",
            Returned(<<encodeRoute(fnCall.args[1], fnCall.args[2]),
                       encodeRoute(fnCall.args[1], fnCall.args[3])>>))

\* normalizeAddress is applied to each of two strings, and to its results.
NormalizeAddress ==
    Applies("normalizeAddress",
            Returned([out |-> <<normalizeAddress(fnCall.args[1]),
                                normalizeAddress(fnCall.args[2])>>,
                      again |->
                          <<normalizeAddress(
                                normalizeAddress(fnCall.args[1])),
                            normalizeAddress(
                                normalizeAddress(fnCall.args[2]))>>]))

\* resolveToken with a registry made of MAINNET_TOKENS and the caller's
\* tokens.
ResolveToken ==
    Applies("resolveToken",
            resolveToken(fnCall.args[1], TokenRegistry(fnCall.args[2])))

\* calculateBackoff, with whatever Math.random() returns.
CalculateBackoff ==
    \E random \in MathRandom :
        Applies("calculateBackoff",
                Returned(calculateBackoff(fnCall.args[1], fnCall.args[2],
                                          fnCall.args[3], fnCall.args[4],
                                          random)))

\* addSlippage and subtractSlippage are applied to an amount, and
\* subtractSlippage to the result of addSlippage.
Slippage ==
    Applies("slippage",
            Returned([added |-> addSlippage(fnCall.args[1], fnCall.args[2]),
                      subtracted |->
                          subtractSlippage(fnCall.args[1], fnCall.args[2]),
                      roundTrip |->
                          subtractSlippage(
                              addSlippage(fnCall.args[1], fnCall.args[2]),
                              fnCall.args[2])]))

\* A registry is made, the caller's tokens are registered in order, and it
\* is asked for a symbol, for an address, and for the symbol of the token
\* found by address.
Lookup ==
    LET reg == TokenRegistry(fnCall.args[1])
        found == getByAddress(reg, fnCall.args[3])
    IN  Applies("lookup",
                Returned([bySymbol |-> getBySymbol(reg, fnCall.args[2]),
                          byAddress |-> found,
                          bySymbolOfFound |->
                              IF found = Undefined
                              THEN Undefined
                              ELSE getBySymbol(reg, found.symbol)]))

FnNext ==
    \/ NormalizeQuote
    \/ SplitU256
    \/ EncodeRouteNode
    \/ EncodeRoute
    \/ NormalizeAddress
    \/ ResolveToken
    \/ CalculateBackoff
    \/ Slippage
    \/ Lookup

SpecFns == FnInit /\ [][FnNext]_vars

-----------------------------------------------------------------------------
(* Properties                                                              *)

\* Every element of seq is in S.
AllIn(seq, S) == \A i \in 1..Len(seq) : seq[i] \in S

\* The first n elements of seq are in S.
PrefixIn(seq, n, S) == \A i \in 1..n : seq[i] \in S

\* After k settled invocations the call goes on to invocation k + 1: it is
\* in its backoff wait or in invocation k + 1, or the caller's signal was
\* aborted meanwhile and the call ended with the cancellation error cancel.
GoesOn(k, cancel) ==
    \/ pc = "sleeping" /\ sleeps = k /\ calls = k
    \/ pc = "fetching" /\ sleeps = k /\ calls = k + 1
    \/ pc = "done" /\ signalAborted /\ calls = k /\ result = Thrown(cancel)

\* Responses of fetchSwapQuote that fail the attempt without ending the call
\* unless the attempt is the final one.
QuoteRetryable ==
    {"ok_error", "nf_other", "nf_badbody", "rl", "rl0", "s500", "s503",
     "neterr"}

RateLimited == {"rl", "rl0"}

Liquidity == {"ok_liquidity", "nf_liquidity"}

\* C1: a fetchSwapQuote call never issues more than maxRetries requests, and
\* when the final (maxRetries-th) request fails retryably the call has ended,
\* throwing the error of that last attempt, with exactly maxRetries requests.
C1_AtMostMaxRetriesRequests ==
    /\ calls <= maxRetries
    /\ Len(settled) <= maxRetries
    /\ (Len(settled) = maxRetries /\ maxRetries >= 1
          /\ settled[maxRetries] \in QuoteRetryable)
       => /\ pc = "done"
          /\ calls = maxRetries
          /\ result = Thrown(lastError)
          /\ lastError.at = maxRetries
          /\ lastError.cls \in {"ApiError", "RateLimitError", "TypeError"}

C1_Witness ==
    /\ maxRetries = 3
    /\ settled = <<"s500", "rl", "neterr">>
    /\ pc = "done"
    /\ result = Thrown(NetworkError(3))

\* Failures of fn that withRetry retries, and those it does not.
FnRetryable ==
    {"Error", "TypeError", "ApiError", "RateLimitError", "TimeoutError"}

FnNonRetryable ==
    {"InsufficientLiquidityError", "AbortError", "DOMAbortError",
     "TokenNotFoundError", "InvalidChainError"}

\* C2: withRetry, no cancellation, only retryable failures: k failures then a
\* success (k < maxRetries) return that success value after exactly k + 1
\* invocations; maxRetries failures throw the last error after exactly
\* maxRetries invocations; fewer failures leave the call going on.
C2_RetryUntilSuccessOrExhausted ==
    LET n == Len(settled) IN
    ~signalAborted =>
      /\ (n >= 1 /\ PrefixIn(settled, n - 1, FnRetryable) /\ settled[n] = "ok")
         => /\ pc = "done"
            /\ result = Returned(n)
            /\ calls = n
      /\ (n >= 1 /\ n = maxRetries /\ AllIn(settled, FnRetryable))
         => /\ pc = "done"
            /\ result = Thrown(FnError(settled[n], n))
            /\ calls = maxRetries
      /\ (n >= 1 /\ n < maxRetries /\ AllIn(settled, FnRetryable))
         => GoesOn(n, NoError)

C2_Witness ==
    /\ maxRetries = 3
    /\ settled = <<"Error", "ApiError", "ok">>
    /\ pc = "done"
    /\ result = Returned(3)
    /\ calls = 3
    /\ ~signalAborted

\* C3: in withRetry a non-retryable failure (insufficient liquidity,
\* AbortError, token not found, invalid chain) ends the call at once with
\* that same error: no later invocation, no backoff wait after it; any other
\* failure on a non-final attempt is followed by a backoff wait and the next
\* attempt.
C3_NonRetryablePropagatesAtOnce ==
    LET n == Len(settled) IN
    /\ \A i \in 1..n :
         settled[i] \in FnNonRetryable
         => /\ i = n
            /\ pc = "done"
            /\ result = Thrown(FnError(settled[i], i))
            /\ calls = i
            /\ sleeps = i - 1
    /\ (n >= 1 /\ n < maxRetries /\ settled[n] \in FnRetryable)
       => GoesOn(n, PlainError(n))

C3_Witness ==
    /\ maxRetries = 3
    /\ settled = <<"InvalidChainError">>
    /\ pc = "done"
    /\ calls = 1
    /\ sleeps = 0
    /\ result = Thrown(InvalidChainError(1))

\* C4: in fetchSwapQuote a per-attempt timeout on a non-final attempt is
\* followed by a backoff wait and another attempt, whereas a request aborted
\* by the caller's signal ends the call with AbortError and no further
\* request.
C4_TimeoutRetriedCancelNot ==
    LET n == Len(settled) IN
    /\ (n >= 1 /\ n < maxRetries /\ settled[n] = "timeout")
       => GoesOn(n, AbortError(n))
    /\ \A i \in 1..n :
         settled[i] = UserAbort
         => /\ i = n
            /\ pc = "done"
            /\ calls = i
            /\ result = Thrown(AbortError(i))

\* C5: a response signalling insufficient liquidity (HTTP success or 404)
\* ends the call with InsufficientLiquidityError on whichever attempt it
\* occurs: no request and no backoff wait follow it.
C5_LiquidityNeverRetried ==
    LET n == Len(settled) IN
    \A i \in 1..n :
      settled[i] \in Liquidity
      => /\ i = n
         /\ pc = "done"
         /\ calls = i
         /\ sleeps = i - 1
         /\ result = Thrown(InsufficientLiquidityError(i))

C5_Witness ==
    /\ maxRetries = 3
    /\ settled = <<"s500", "nf_liquidity">>
    /\ pc = "done"
    /\ calls = 2
    /\ result = Thrown(InsufficientLiquidityError(2))

\* C6 as stated: an HTTP-success response with a non-liquidity error field
\* ends the call with ApiError; no request follows it.
C6_BodyErrorNotRetried ==
    LET n == Len(settled) IN
    \A i \in 1..n :
      settled[i] = "ok_error"
      => /\ i = n
         /\ pc = "done"
         /\ calls = i
         /\ result = Thrown(ApiError(0, i))

\* C6 amended: an HTTP-success response with a non-liquidity error field
\* fails the attempt with an ApiError without status code; on a non-final
\* attempt a backoff wait and the next request follow, on the final attempt
\* the call ends throwing that ApiError.
C6_BodyErrorRetried ==
    LET n == Len(settled) IN
    (n >= 1 /\ settled[n] = "ok_error")
    => /\ lastError = ApiError(0, n)
       /\ n < maxRetries => GoesOn(n, AbortError(n))
       /\ n = maxRetries
          => /\ pc = "done"
             /\ calls = n
             /\ result = Thrown(ApiError(0, n))

C6_Witness ==
    /\ maxRetries = 3
    /\ settled = <<"ok_error">>
    /\ pc = "fetching"
    /\ calls = 2
    /\ sleeps = 1
    /\ ~signalAborted

\* C7: when the final attempt receives 429 the call ends with
\* RateLimitError (not ApiError) after exactly maxRetries requests; so it
\* does when every attempt receives 429.
C7_RateLimitErrorWhenExhausted ==
    LET n == Len(settled) IN
    (n >= 1 /\ n = maxRetries /\ settled[n] \in RateLimited)
    => /\ pc = "done"
       /\ calls = maxRetries
       /\ result = Thrown(RateLimitError(n))
       /\ result.error.cls # "ApiError"

C7_Witness ==
    /\ maxRetries = 3
    /\ settled = <<"rl", "rl0", "rl">>
    /\ pc = "done"
    /\ calls = 3
    /\ result = Thrown(RateLimitError(3))

\* C8: k responses 429 (k < maxRetries) are each followed by a backoff wait
\* and another request, and a 200 with a normal payload after them ends the
\* call with the quote of request k + 1 after exactly k + 1 requests.
C8_RateLimitThenSuccess ==
    LET n == Len(settled) IN
    /\ (n >= 1 /\ n < maxRetries /\ AllIn(settled, RateLimited))
       => GoesOn(n, AbortError(n))
    /\ (n >= 1 /\ PrefixIn(settled, n - 1, RateLimited)
          /\ settled[n] = "ok_quote")
       => /\ pc = "done"
          /\ calls = n
          /\ sleeps = n - 1
          /\ result = Returned(n)

C8_Witness ==
    /\ maxRetries = 3
    /\ settled = <<"rl0", "ok_quote">>
    /\ pc = "done"
    /\ calls = 2
    /\ result = Returned(2)

OtherStatus == {"s500", "s503"}

\* C9: a non-success status other than 404 and 429 fails the attempt with an
\* ApiError carrying that status; on a non-final attempt a backoff wait and
\* the next request follow, and on the final attempt the call ends throwing
\* the ApiError with the status of that last response.
C9_OtherStatusRetried ==
    LET n == Len(settled) IN
    (n >= 1 /\ settled[n] \in OtherStatus)
    => /\ lastError = ApiError(StatusOf(settled[n]), n)
       /\ n < maxRetries => GoesOn(n, AbortError(n))
       /\ n = maxRetries
          => /\ pc = "done"
             /\ calls = maxRetries
             /\ result = Thrown(ApiError(StatusOf(settled[n]), n))

C9_Witness ==
    /\ maxRetries = 3
    /\ settled = <<"s500", "s500", "s503">>
    /\ pc = "done"
    /\ calls = 3
    /\ result.error.statusCode = 503

NotFoundOther == {"nf_other", "nf_badbody"}

\* C10: a 404 whose body does not signal insufficient liquidity, unparseable
\* bodies included, fails the attempt with ApiError of status 404 and with
\* no other error.
C10_NotFoundIsApiError404 ==
    LET n == Len(settled) IN
    (n >= 1 /\ settled[n] \in NotFoundOther)
    => /\ lastError = ApiError(404, n)
       /\ pc = "done"
          => \/ result = Thrown(ApiError(404, n))
             \/ signalAborted /\ result = Thrown(AbortError(n))

C10_Witness ==
    /\ maxRetries = 1
    /\ settled = <<"nf_badbody">>
    /\ pc = "done"
    /\ result = Thrown(ApiError(404, 1))

\* The attempt the next iteration of the loop is for.
NextAttempt == IF pc = "start" THEN 0 ELSE attempt + 1

\* C11: when the caller's signal is already aborted as an attempt is about
\* to start (the first one, or one after a backoff wait), the call ends at
\* once with AbortError and the operation is not started.
C11_PreAbortedFailsWithAbortError ==
    [][(pc \in {"start", "sleeping"} /\ signalAborted
          /\ NextAttempt < maxRetries)
       => /\ pc' = "done"
          /\ calls' = calls
          /\ result'.status = "thrown"
          /\ result'.error.cls = "AbortError"]_vars

\* C12: an abort of the caller's signal during the backoff wait ends the
\* wait and the call with it: the call fails with a cancellation error as
\* the signal aborts, and no further attempt is started.
C12_AbortEndsBackoffWait ==
    [][(pc = "sleeping" /\ ~signalAborted /\ signalAborted')
       => /\ pc' = "done"
          /\ calls' = calls
          /\ result'.status = "thrown"
          /\ result'.error.name \in {"AbortError", "Error"}]_vars


-----------------------------------------------------------------------------
(* Properties of QuotePoller                                               *)

\* The fields of the poller and the timers, controllers and calls around it.
PollerFields ==
    <<isRunning, intervalId, abortController, consecutiveErrors, params,
      armed, abortedCtrls, inflight>>

\* The fetchSwapQuote calls a step issues.
Issued == inflight' \ inflight

\* C13: with maxConsecutiveErrors = N, once N consecutive fetches have failed
\* with a non-cancellation error the poller is idle with no timer armed (so
\* no further fetch is issued until start() is called again), and onStop has
\* been invoked with reason "errors" at most once in the session, whatever the
\* interleaving of ticks and completions of overlapping fetches.
C13_StopsOnceAtThreshold ==
    /\ errorStops <= 1
    /\ consecutiveErrors >= maxConsecutiveErrors
         => ~isRunning /\ armed = {} /\ errorStops = 1

\* C14: start() has an effect only from idle: from idle it resets the
\* consecutive-error counter, sets running, issues exactly one fetch at once
\* and arms exactly one timer; on a running poller it changes nothing; so at
\* most one timer is ever armed.
C14_StartOnlyFromIdle ==
    /\ [](Cardinality(armed) <= 1)
    /\ [][event'.op = "start" =>
            IF isRunning
            THEN UNCHANGED <<PollerFields, starts, issued>>
            ELSE /\ isRunning'
                 /\ consecutiveErrors' = 0
                 /\ issued' = issued + 1
                 /\ Cardinality(Issued) = 1
                 /\ \A f \in Issued : f.ctrl = abortController'
                 /\ abortController' \notin abortedCtrls'
                 /\ armed = {}
                 /\ armed' = {intervalId'}
                 /\ intervalId' # 0]_vars

\* start() was called on a running poller whose first fetch had completed.
C14_Witness ==
    /\ event.op = "start"
    /\ isRunning
    /\ inflight = {}
    /\ Cardinality(armed) = 1
    /\ issued = 1

\* C15: stop() on a running poller disarms the timer, aborts the session's
\* controller (and with it every fetch in flight), leaves the poller idle and
\* invokes onStop("manual") exactly once; stop() on an idle poller changes no
\* state and invokes no callback.
C15_StopRunningOnly ==
    [][event'.op = "stop" =>
         IF isRunning
         THEN /\ ~isRunning'
              /\ armed' = {}
              /\ intervalId' = 0
              /\ abortController \in abortedCtrls'
              /\ abortController' = 0
              /\ \A f \in inflight' : f.ctrl \in abortedCtrls'
              /\ inflight' = inflight
              /\ callbacks' = <<Callback("onStop", "manual")>>
         ELSE /\ UNCHANGED PollerFields
              /\ callbacks' = <<>>]_vars

\* stop() was called on a running poller with two fetches in flight.
C15_Witness ==
    /\ event.op = "stop"
    /\ callbacks = <<Callback("onStop", "manual")>>
    /\ Cardinality(inflight) = 2
    /\ \A f \in inflight : f.ctrl \in abortedCtrls
    /\ ~isRunning

\* C16: when a fetch of the poller succeeds the counter becomes 0 and onQuote
\* is invoked with the quote; when it fails and its session's controller was
\* not aborted (a per-attempt timeout included) the counter goes up by one and
\* onError is invoked with the error.
C16_EveryFailureCounted ==
    [][event'.op = "settle" =>
         LET f == event'.fetch
             res == QuoteFinal(event'.way)
         IN  IF res.status = "returned"
             THEN /\ consecutiveErrors' = 0
                  /\ callbacks' = <<Callback("onQuote", f.params)>>
             ELSE f.ctrl \notin abortedCtrls
                    => /\ consecutiveErrors' = consecutiveErrors + 1
                       /\ Len(callbacks') >= 1
                       /\ callbacks'[1] = Callback("onError", res.error)]_vars

\* C17: updateParams(partial) merges partial into params; on a running poller
\* it then stops and starts: the old controller is aborted, onStop("manual")
\* is invoked once, the counter is reset, one fetch is issued at once and the
\* poller is running; on an idle poller it issues nothing and the poller stays
\* idle; and every fetch issued by any step carries the parameters current at
\* that step.
C17_UpdateParamsRestarts ==
    [][/\ \A f \in Issued : f.params = params' /\ f.ctrl = abortController'
       /\ event'.op = "updateParams" =>
            /\ params' = Assign(params, event'.partial)
            /\ IF isRunning
               THEN /\ isRunning'
                    /\ callbacks' = <<Callback("onStop", "manual")>>
                    /\ consecutiveErrors' = 0
                    /\ abortController \in abortedCtrls'
                    /\ abortController' \notin abortedCtrls'
                    /\ abortController' # 0
                    /\ Cardinality(Issued) = 1
                    /\ armed' = {intervalId'}
                    /\ intervalId' \notin armed
               ELSE /\ ~isRunning'
                    /\ Issued = {}
                    /\ callbacks' = <<>>
                    /\ UNCHANGED <<isRunning, intervalId, abortController,
                                   consecutiveErrors, armed, abortedCtrls,
                                   inflight>>]_vars

\* updateParams changed both parameters of a running poller: the fetch of
\* the old session is cancelled and a fetch with the new parameters is in
\* flight.
C17_Witness ==
    /\ event.op = "updateParams"
    /\ isRunning
    /\ callbacks = <<Callback("onStop", "manual")>>
    /\ params = [amount |-> 2, tokenTo |-> "USDC"]
    /\ \E f \in inflight : f.ctrl \in abortedCtrls /\ f.params = InitialParams
    /\ \E f \in inflight : f.ctrl = abortController /\ f.params = params


-----------------------------------------------------------------------------
(* Properties of generateSwapCalls                                         *)

\* generateSwapCalls has returned its calls.
Generated == genOp = "generateSwapCalls" /\ genResult.status = "returned"

\* The entrypoints of a sequence of calls.
Entrypoints(callSeq) == [i \in 1..Len(callSeq) |-> callSeq[i].entrypoint]

\* The router the calls are addressed to.
RouterUsed ==
    IF "routerAddress" \in DOMAIN genParams
    THEN genParams.routerAddress
    ELSE IF "chainId" \in DOMAIN genParams
    THEN ROUTER_ADDRESSES[genParams.chainId]
    ELSE MainnetRouter

\* C18: for a quote with at least one split, allCalls is transfer, one swap
\* call, clear_minimum, clear, in that order; the swap call is multihop_swap
\* iff there is exactly one split and multi_multihop_swap iff there are two or
\* more; clear_minimum carries the normalized buyToken and minimumReceived;
\* every call after the transfer is a call of the router.
C18_FourCallsInOrder ==
    (Generated /\ Len(genParams.quote.splits) >= 1) =>
        LET allCalls == genResult.allCalls
            swap == IF Len(genParams.quote.splits) = 1
                    THEN "multihop_swap"
                    ELSE "multi_multihop_swap"
        IN  /\ Entrypoints(allCalls)
                 = <<"transfer", swap, "clear_minimum", "clear">>
            /\ allCalls[1] = genResult.transferCall
            /\ genResult.swapCalls = <<allCalls[2], allCalls[3]>>
            /\ allCalls[4] = genResult.clearCall
            /\ \A i \in 2..4 : allCalls[i].contractAddress = RouterUsed
            /\ Len(allCalls[3].calldata) = 3
            /\ allCalls[3].calldata[1] = toLowerCase(allCalls[3].calldata[1])
            /\ BigInt(allCalls[3].calldata[1]) = BigInt(genParams.buyToken)
            /\ BigInt(allCalls[3].calldata[2]) = genParams.minimumReceived

\* A two-split quote was encoded with multi_multihop_swap, the buyToken given
\* in upper case.
C18_Witness ==
    /\ Generated
    /\ Len(genParams.quote.splits) = 2
    /\ genParams.buyToken = <<"0", "X", "a", "B">>
    /\ genResult.allCalls[2].entrypoint = "multi_multihop_swap"
    /\ genResult.allCalls[3].calldata[1] = <<"0", "x", "a", "b">>
    /\ Len(genResult.allCalls) = 4

\* C19: for a quote with an empty split list, swapCalls is empty and allCalls
\* is exactly transfer, clear: no swap call and no clear_minimum.
C19_EmptyQuoteTwoCalls ==
    (Generated /\ genParams.quote.splits = <<>>) =>
        /\ genResult.swapCalls = <<>>
        /\ Entrypoints(genResult.allCalls) = <<"transfer", "clear">>
        /\ genResult.allCalls
             = <<genResult.transferCall, genResult.clearCall>>

\* A quote without splits was encoded.
C19_Witness ==
    /\ Generated
    /\ genParams.quote.splits = <<>>
    /\ Len(genResult.allCalls) = 2
    /\ genParams.quote.total = 50

\* C20: the transfer call is a transfer on the normalized sellToken, to the
\* router, of total + (total * slippagePercent) / 100, slippagePercent being
\* 5 when not given; a total of 50 with 10 percent gives 55 (the example of
\* 5*10^19 giving 55*10^18, in units of 10^18).
C20_TransferAmountWithSlippage ==
    Generated =>
        LET total == genParams.quote.total
            pct == IF "slippagePercent" \in DOMAIN genParams
                   THEN genParams.slippagePercent
                   ELSE 5
            transfer == genResult.transferCall
        IN  /\ transfer.entrypoint = "transfer"
            /\ BigInt(transfer.contractAddress) = BigInt(genParams.sellToken)
            /\ Len(transfer.calldata) = 3
            /\ transfer.calldata[1] = RouterUsed
            /\ BigInt(transfer.calldata[2]) = total + ((total * pct) \div 100)
            /\ BigInt(transfer.calldata[3]) = 0
            /\ (total = 50 /\ pct = 10) => BigInt(transfer.calldata[2]) = 55

\* A total of 50 was transferred with the default slippage: 52, the half
\* unit lost to the truncating division.
C20_Witness ==
    /\ Generated
    /\ genParams.quote.total = 50
    /\ "slippagePercent" \notin DOMAIN genParams
    /\ genResult.transferCall.calldata[2] = <<"0", "x", "3", "4">>


\* The eight words of a hop record hold the pool key, the price limit in two
\* limbs and skipAhead of the hop.
IsHopRecord(words, hop) ==
    /\ Len(words) = 8
    /\ words[1] = hop.pool_key.token0
    /\ words[2] = hop.pool_key.token1
    /\ words[3] = hop.pool_key.fee
    /\ HasHexPrefix(words[4])
    /\ BigInt(words[4]) = hop.pool_key.tick_spacing
    /\ words[5] = hop.pool_key.extension
    /\ HasHexPrefix(words[6])
    /\ BigInt(words[6]) = BigInt(hop.sqrt_ratio_limit)
    /\ words[7] = <<"0", "x", "0">>
    /\ HasHexPrefix(words[8])
    /\ BigInt(words[8]) = hop.skip_ahead

\* The words are the payload of the split: hop count, hop records in route
\* order, the normalized buyToken, the magnitude of the amount, the flag.
IsSplitPayload(words, split) ==
    LET h == Len(split.route)
    IN  /\ Len(words) = 8 * h + 4
        /\ HasHexPrefix(words[1])
        /\ BigInt(words[1]) = h
        /\ \A i \in 1..h :
             IsHopRecord(SubSeq(words, 8 * i - 6, 8 * i + 1), split.route[i])
        /\ words[8 * h + 2] = toLowerCase(words[8 * h + 2])
        /\ HasHexPrefix(words[8 * h + 2])
        /\ BigInt(words[8 * h + 2]) = BigInt(genParams.buyToken)
        /\ \E magnitude \in {BigInt(split.amount_specified),
                             -BigInt(split.amount_specified)} :
             /\ magnitude >= 0
             /\ words[8 * h + 3] = <<"0", "x">> \o NatToString16(magnitude)
        /\ words[8 * h + 4] = <<"0", "x", "1">>

\* C34: for a single split with h hops the multihop_swap calldata is h, the h
\* hop records of 8 words in route order, the normalized buyToken, the
\* absolute value of amount_specified and the flag 0x1: 8h + 4 words, the
\* amount word positive whatever the sign of amount_specified.
C34_SingleSplitCalldata ==
    (Generated /\ Len(genParams.quote.splits) = 1) =>
        /\ genResult.allCalls[2].entrypoint = "multihop_swap"
        /\ IsSplitPayload(genResult.allCalls[2].calldata,
                          genParams.quote.splits[1])

\* A split of one hop with the amount -5 was encoded: 12 words, the amount
\* word 0x5.
C34_Witness ==
    /\ Generated
    /\ Len(genParams.quote.splits) = 1
    /\ genParams.quote.splits[1].amount_specified = <<"-", "5">>
    /\ Len(genResult.allCalls[2].calldata) = 12
    /\ genResult.allCalls[2].calldata[11] = <<"0", "x", "5">>
    /\ genResult.allCalls[2].calldata[12] = <<"0", "x", "1">>

\* The number of words before the payload of the k-th split.
RECURSIVE PayloadStart(_, _)
PayloadStart(splits, k) ==
    IF k = 1
    THEN 1
    ELSE PayloadStart(splits, k - 1) + 8 * Len(splits[k - 1].route) + 4

\* C35: for n >= 2 splits the multi_multihop_swap calldata is n followed by
\* the payload of each split in the order of the quote, none reordered,
\* dropped, deduplicated or merged: 1 + the sum of (8 * hops + 4) words.
C35_SplitsInQuoteOrder ==
    (Generated /\ Len(genParams.quote.splits) >= 2) =>
        LET splits == genParams.quote.splits
            n == Len(splits)
            words == genResult.allCalls[2].calldata
        IN  /\ genResult.allCalls[2].entrypoint = "multi_multihop_swap"
            /\ HasHexPrefix(words[1])
            /\ BigInt(words[1]) = n
            /\ Len(words) = PayloadStart(splits, n + 1)
            /\ \A k \in 1..n :
                 IsSplitPayload(SubSeq(words, PayloadStart(splits, k) + 1,
                                       PayloadStart(splits, k + 1)),
                                splits[k])

\* The same split of two hops was given twice and encoded twice: 41 words.
C35_Witness ==
    /\ Generated
    /\ Len(genParams.quote.splits) = 2
    /\ genParams.quote.splits[1] = genParams.quote.splits[2]
    /\ Len(genParams.quote.splits[1].route) = 2
    /\ Len(genResult.allCalls[2].calldata) = 41
    /\ genResult.allCalls[2].calldata[1] = <<"0", "x", "2">>

\* prepareSwapCalls has returned its calls.
Prepared == genOp = "prepareSwapCalls" /\ genResult.status = "returned"

\* C21: prepareSwapCalls returns what generateSwapCalls returns for the same
\* params with an approve call put first in allCalls (5 calls for a quote
\* with splits, 3 without); the approve call is on sellToken, with the router
\* as spender and the amount of the transfer call.
C21_ApprovePrepended ==
    Prepared =>
        LET generated == generateSwapCalls(genParams)
            approve == genResult.approveCall
        IN  /\ genResult.allCalls = <<approve>> \o generated.allCalls
            /\ Len(genResult.allCalls)
                 = IF genParams.quote.splits = <<>> THEN 3 ELSE 5
            /\ genResult.transferCall = generated.transferCall
            /\ genResult.swapCalls = generated.swapCalls
            /\ genResult.clearCall = generated.clearCall
            /\ approve.entrypoint = "approve"
            /\ BigInt(approve.contractAddress) = BigInt(genParams.sellToken)
            /\ approve.contractAddress = genResult.transferCall.contractAddress
            /\ approve.calldata[1] = RouterUsed
            /\ approve.calldata = genResult.transferCall.calldata

\* prepareSwapCalls returned five calls for a quote with one split.
C21_Witness ==
    /\ Prepared
    /\ Len(genParams.quote.splits) = 1
    /\ Len(genResult.allCalls) = 5
    /\ genResult.allCalls[1].entrypoint = "approve"
    /\ genResult.allCalls[2].entrypoint = "transfer"


-----------------------------------------------------------------------------
(* Properties of the request of fetchSwapQuote                             *)

-----------------------------------------------------------------------------
(* Properties of the pure functions                                        *)

\* The function fn has been applied and has returned.
Applied(fn) == fnResult.status = "returned" /\ fnCall.fn = fn

\* A total_calculated in halves, whichever its type.
InHalves(totalCalculated) ==
    IF totalCalculated.type = "string"
    THEN 2 * BigInt(totalCalculated.chars)
    ELSE totalCalculated.halves

\* C23: the total of a normalized quote is the absolute value of
\* total_calculated, string or number, and never negative; two payloads whose
\* total_calculated are equal in magnitude and opposite in sign get the same
\* total; price_impact and splits are passed through unchanged.
C23_TotalIsMagnitude ==
    Applied("normalizeQuote") =>
        LET h1 == InHalves(fnCall.args[1].total_calculated)
            h2 == InHalves(fnCall.args[2].total_calculated)
        IN  /\ \A i \in {1, 2} :
                 LET data == fnCall.args[i]
                     quote == fnResult.value[i]
                     h == InHalves(data.total_calculated)
                 IN  /\ quote.total >= 0
                     /\ h % 2 = 0 => 2 * quote.total = abs(h)
                     /\ quote.impact = data.price_impact
                     /\ quote.splits = data.splits
            /\ h1 = -h2 => fnResult.value[1].total = fnResult.value[2].total

\* The digits of a hexadecimal string are those of a number below 2^128
\* written without leading zeros.
IsLimb(str) ==
    /\ HasHexPrefix(str)
    /\ Len(str) >= 3
    /\ Len(str) <= 2 + 32
    /\ Len(str) > 3 => str[3] # "0"
    /\ \A i \in 3..Len(str) : \E j \in 1..16 : Digits[j] = str[i]

\* high * 2^128 + low, in digits: the digits of high, then those of low
\* filled up to 32 digits with zeros.
Recombined(low, high) ==
    LET lowDigits == SubSeq(low, 3, Len(low))
        highDigits == SubSeq(high, 3, Len(high))
    IN  StripZeros(highDigits \o Repeat("0", 32 - Len(lowDigits))
                     \o lowDigits)

C25_NormalizeCanonical ==
    Applied("normalizeAddress") =>
        LET x == fnCall.args[1]
            y == fnCall.args[2]
            out == fnResult.value.out
        IN  /\ BigInt(x) = BigInt(y) => out[1] = out[2]
            /\ BigInt(x) # BigInt(y) => out[1] # out[2]
            /\ fnResult.value.again = out

\* 0X0A and the decimal string 10 were both normalized to 0xa.
C25_Witness ==
    /\ Applied("normalizeAddress")
    /\ fnCall.args = <<<<"0", "X", "0", "A">>, <<"1", "0">>>>
    /\ fnResult.value.out = <<<<"0", "x", "a">>, <<"0", "x", "a">>>>

\* The calls of a result all go through the router r.
RouterIs(r) ==
    /\ genResult.transferCall.calldata[1] = r
    /\ genResult.clearCall.contractAddress = r
    /\ \A i \in 1..Len(genResult.swapCalls) :
         genResult.swapCalls[i].contractAddress = r
    /\ genOp = "prepareSwapCalls" => genResult.approveCall.calldata[1] = r

\* C26: generateSwapCalls and prepareSwapCalls use the caller's routerAddress
\* when there is one, else the router registered for chainId; when neither
\* is a non-empty address they fail with InvalidChainError and return no
\* calls.
C26_RouterOrInvalidChain ==
    genOp # "none" =>
        LET custom == IF "routerAddress" \in DOMAIN genParams
                      THEN genParams.routerAddress
                      ELSE <<>>
            chainId == IF "chainId" \in DOMAIN genParams
                       THEN genParams.chainId
                       ELSE CHAIN_IDS.MAINNET
            registered == IF chainId \in DOMAIN ROUTER_ADDRESSES
                          THEN ROUTER_ADDRESSES[chainId]
                          ELSE <<>>
        IN  IF custom # <<>>
            THEN genResult.status = "returned" /\ RouterIs(custom)
            ELSE IF registered # <<>>
            THEN genResult.status = "returned" /\ RouterIs(registered)
            ELSE /\ genResult.status = "thrown"
                 /\ genResult.error.cls = "InvalidChainError"
                 /\ "allCalls" \notin DOMAIN genResult

\* The token registered last under the symbol of id, whatever the case;
\* Undefined when there is none.
RECURSIVE LastRegistered(_, _)
LastRegistered(tokens, id) ==
    IF tokens = <<>>
    THEN Undefined
    ELSE IF toUpperCase(tokens[Len(tokens)].symbol) = toUpperCase(id)
    THEN tokens[Len(tokens)]
    ELSE LastRegistered(SubSeq(tokens, 1, Len(tokens) - 1), id)

\* id is 0x followed by hexadecimal digits.
AddressLike(id) ==
    /\ Len(id) >= 3
    /\ SubSeq(id, 1, 2) = <<"0", "x">>
    /\ \A i \in 3..Len(id) :
         id[i] \in {"0", "1", "2", "3", "4", "5", "6", "7", "8", "9",
                    "a", "b", "c", "d", "e", "f",
                    "A", "B", "C", "D", "E", "F"}

\* C27: resolveToken returns the normalized form of an address-like id
\* whether or not the registry knows it; any other id is looked up as a
\* symbol, case-insensitively, and the registered address is returned; an
\* unknown symbol fails with TokenNotFoundError.
C27_ResolveToken ==
    (fnCall.called /\ fnCall.fn = "resolveToken" /\ fnResult # NoResult) =>
        LET id == fnCall.args[1]
            token == LastRegistered(MAINNET_TOKENS \o fnCall.args[2], id)
        IN  IF AddressLike(id)
            THEN /\ fnResult.status = "returned"
                 /\ BigInt(fnResult.value) = BigInt(id)
                 /\ fnResult.value = normalizeAddress(fnResult.value)
            ELSE IF token # Undefined
            THEN /\ fnResult.status = "returned"
                 /\ BigInt(fnResult.value) = BigInt(token.address)
                 /\ fnResult.value = normalizeAddress(fnResult.value)
            ELSE /\ fnResult.status = "thrown"
                 /\ fnResult.error.cls = "TokenNotFoundError"

\* The symbol eth, registered by the caller over the mainnet ETH, was
\* resolved from Eth to the caller's address.
C27_Witness ==
    /\ fnCall.called
    /\ fnCall.fn = "resolveToken"
    /\ fnCall.args[1] = <<"E", "t", "h">>
    /\ Len(fnCall.args[2]) = 1
    /\ fnResult.status = "returned"
    /\ fnResult.value = <<"0", "x", "9">>

-----------------------------------------------------------------------------
(* Properties of QuotePoller: idle pollers, overlapping fetches, sessions  *)

\* C28: once the poller is idle (after stop() or after the error threshold)
\* no callback is invoked until start() is called again: a step of an idle
\* poller other than start(), the completion of a fetch issued before the stop
\* included, invokes neither onQuote nor onError nor onStop.
C28_IdleIsSilent ==
    [][(~isRunning /\ event'.op # "start") => callbacks' = <<>>]_vars

\* C29: when a timer tick fires while a fetch of the same session is still
\* outstanding, the tick issues its fetch at once, the new fetch has a
\* cancellation handle that no outstanding fetch has, and the outstanding
\* fetches of the session are cancelled.
C29_FreshHandlePerFetch ==
    [][(/\ event'.op = "tick"
        /\ isRunning
        /\ \E f \in inflight : f.ctrl = abortController)
       => /\ Cardinality(Issued) = 1
          /\ \A g \in Issued : g.ctrl \notin {f.ctrl : f \in inflight}
          /\ \A f \in inflight : f.ctrl \in abortedCtrls']_vars

\* C30: the completion of a fetch issued in an earlier session, while a later
\* session is running, leaves the later session alone: the consecutive-error
\* counter keeps its value and onQuote is not invoked.
C30_OldSessionIgnored ==
    [][(/\ event'.op = "settle"
        /\ isRunning
        /\ abortController # 0
        /\ event'.fetch.ctrl # abortController)
       => /\ consecutiveErrors' = consecutiveErrors
          /\ \A i \in 1..Len(callbacks') : callbacks'[i].cb # "onQuote"]_vars

\* C31: a fetch that fails with the cancellation the poller's own shutdown
\* caused (its session's controller was aborted by stop(), by a restart in
\* updateParams or by the error-threshold stop, and the call rejects with
\* AbortError) is swallowed: no callback is invoked and the consecutive-error
\* counter keeps its value.
C31_ShutdownCancellationSwallowed ==
    [][(/\ event'.op = "settle"
        /\ event'.fetch.ctrl \in abortedCtrls
        /\ QuoteFinal(event'.way).status = "thrown"
        /\ QuoteFinal(event'.way).error.name = "AbortError")
       => /\ callbacks' = <<>>
          /\ consecutiveErrors' = consecutiveErrors
          /\ isRunning' = isRunning]_vars

\* A fetch cancelled by the error-threshold stop has completed with its
\* cancellation after another fetch had brought the counter to the threshold.
C31_Witness ==
    /\ event.op = "settle"
    /\ event.way = UserAbort
    /\ event.fetch.ctrl \in abortedCtrls
    /\ callbacks = <<>>
    /\ errorStops = 1
    /\ consecutiveErrors = maxConsecutiveErrors
    /\ ~isRunning

\* C32: the timer handle and the cancellation handle are both present when
\* the poller is running and both absent when it is idle: none at
\* construction, both created by start(), both released by stop() and by the
\* error-threshold stop; the timer armed is the one the handle names.
C32_HandlesIffRunning ==
    /\ isRunning => intervalId # 0 /\ abortController # 0
    /\ ~isRunning => intervalId = 0 /\ abortController = 0
    /\ armed = IF isRunning THEN {intervalId} ELSE {}
    /\ abortController \notin abortedCtrls

\* The error threshold has stopped a poller that had been restarted.
C32_Witness ==
    /\ ~isRunning
    /\ errorStops = 1
    /\ starts = 2
    /\ intervalId = 0
    /\ abortController = 0
    /\ armed = {}
    /\ Len(callbacks) = 2
    /\ callbacks[2] = Callback("onStop", "errors")

-----------------------------------------------------------------------------
(* Properties of the encoder                                               *)

\* The token a hop leads to from the token cur: the pool's other token when
\* cur is the integer of token1, else token1.
OtherToken(hop, cur) ==
    IF BigInt(cur) = BigInt(hop.pool_key.token1)
    THEN hop.pool_key.token0
    ELSE hop.pool_key.token1

\* The token reached by taking the hops of route in order from cur.
RECURSIVE Threaded(_, _)
Threaded(route, cur) ==
    IF route = <<>>
    THEN cur
    ELSE Threaded(Tail(route), OtherToken(Head(route), cur))

\* C33: encodeRouteNode(hop, current) returns as next token the pool's token0
\* if current equals token1 as an integer (whatever the letter case and the
\* leading zeros) and token1 otherwise, so entering with B gives A and
\* entering with A gives B; encodeRoute threads this token through the hops
\* in route order from the target token.
C33_NextTokenByInteger ==
    /\ Applied("encodeRouteNode") =>
         LET pool_key == fnCall.args[1].pool_key
             current == fnCall.args[2]
             out == fnResult.value
         IN  /\ out.nextToken = OtherToken(fnCall.args[1], current)
             /\ normalizeAddress(current) = normalizeAddress(pool_key.token1)
                  => out.nextToken = pool_key.token0
             /\ normalizeAddress(current) = normalizeAddress(pool_key.token0)
                  => out.nextToken = pool_key.token1
    /\ Applied("encodeRoute") =>
         /\ fnResult.value[1].token = Threaded(fnCall.args[1], fnCall.args[2])
         /\ fnResult.value[2].token = Threaded(fnCall.args[1], fnCall.args[3])

\* A hop was entered with its token1 written in another case and without the
\* leading zero, and led to token0.
C33_Witness ==
    /\ Applied("encodeRouteNode")
    /\ fnCall.args[1].pool_key.token1 = <<"0", "x", "0", "C">>
    /\ fnCall.args[2] = <<"0", "x", "c">>
    /\ fnResult.value.nextToken = <<"0", "x", "1">>

\* C36: the calldata encodeRoute produces does not depend on the token it
\* starts from: from any two starting tokens the encoded words are the same
\* (the final token may differ), and a route whose first pool holds the
\* starting token neither as token0 nor as token1 is encoded all the same.
C36_EncodingIgnoresCurrentToken ==
    (fnCall.called /\ fnCall.fn = "encodeRoute" /\ fnResult # NoResult)
       => /\ fnResult.status = "returned"
          /\ fnResult.value[1].encoded = fnResult.value[2].encoded
          /\ Len(fnResult.value[1].encoded) = 8 * Len(fnCall.args[1])

\* A route of two hops was encoded from a token of its first pool and from a
\* token of no pool, and ended in different tokens.
C36_Witness ==
    /\ Applied("encodeRoute")
    /\ Len(fnCall.args[1]) = 2
    /\ fnCall.args[3] = <<"0", "x", "5">>
    /\ BigInt(fnCall.args[2]) = BigInt(fnCall.args[1][1].pool_key.token1)
    /\ fnResult.value[1].token # fnResult.value[2].token
    /\ fnResult.value[1].encoded = fnResult.value[2].encoded

-----------------------------------------------------------------------------
(* Properties of calculateBackoff                                          *)

\* The duration in milliseconds a Retry-After header asks for: its seconds
\* when it is a number, else the time left until its date, 0 when it names
\* none.
HintDuration(header) ==
    IF header.isNull
    THEN 0
    ELSE LET text == SelectSeq(header.text, LAMBDA c : c # " ")
         IN  IF /\ text # <<>>
                /\ \A i \in 1..Len(text) :
                      text[i] \in {Digits[k] : k \in 1..10}
             THEN 1000 * BigInt(text)
             ELSE IF header.dateDelay.nan
             THEN 0
             ELSE header.dateDelay.value

\* C37: when the retry hint is a positive duration calculateBackoff returns
\* exactly that duration, even above maxBackoff; otherwise (no hint, a zero
\* hint, a past or an invalid date) the delay is between d/2 and d with
\* d = min(maxBackoff, baseBackoff * 2^attempt), so it never exceeds
\* maxBackoff.
C37_HintVerbatimElseJitter ==
    Applied("calculateBackoff") =>
        LET att == fnCall.args[1]
            baseBackoff == fnCall.args[2]
            maxBackoff == fnCall.args[3]
            hint == HintDuration(fnCall.args[4])
            exponential == baseBackoff * 2 ^ att
            d == IF maxBackoff < exponential THEN maxBackoff ELSE exponential
            delay == fnResult.value
        IN  IF hint > 0
            THEN delay = hint
            ELSE /\ 2 * delay >= d
                 /\ delay <= d
                 /\ delay <= maxBackoff

\* A Retry-After of 7 seconds was used as it is, above maxBackoff = 5000.
C37_Witness ==
    /\ Applied("calculateBackoff")
    /\ fnCall.args[4] = Header(<<" ", "7", " ">>, NaN)
    /\ fnCall.args[3] = 5000
    /\ fnResult.value = 7000

-----------------------------------------------------------------------------
(* Properties of the slippage functions                                    *)

\* q is the quotient of n by 100 truncated toward zero: 100 * q is the
\* multiple of 100 nearest to n between 0 and n.
IsTruncatedPercent(q, n) ==
    IF n >= 0
    THEN 100 * q <= n /\ n < 100 * q + 100
    ELSE 100 * q >= n /\ n > 100 * q - 100

\* C39: addSlippage(a, p) = a + (a * p) / 100 and subtractSlippage(a, p) =
\* a - (a * p) / 100 with the division truncating toward zero; so for
\* a, p >= 0 addSlippage(a, p) >= a >= subtractSlippage(a, p); applying
\* subtractSlippage to the result of addSlippage takes off the truncated
\* percentage of that result, which need not give a back.
C39_SlippageTruncates ==
    Applied("slippage") =>
        LET a == fnCall.args[1]
            p == fnCall.args[2]
            out == fnResult.value
        IN  /\ IsTruncatedPercent(out.added - a, a * p)
            /\ IsTruncatedPercent(a - out.subtracted, a * p)
            /\ (a >= 0 /\ p >= 0) => out.added >= a /\ a >= out.subtracted
            /\ IsTruncatedPercent(out.added - out.roundTrip, out.added * p)

\* 100 with 10 percent added is 110, and 110 with 10 percent taken off is 99.
C39_Witness ==
    /\ Applied("slippage")
    /\ fnCall.args = <<100, 10>>
    /\ fnResult.value.added = 110
    /\ fnResult.value.roundTrip = 99
    /\ fnResult.value.roundTrip # fnCall.args[1]

-----------------------------------------------------------------------------
(* Properties of TokenRegistry                                             *)

\* C40: after any sequence of register calls a symbol lookup returns the
\* token most recently registered under that symbol, whatever the case, and
\* the two indexes agree: when getByAddress(a) returns a token T,
\* getBySymbol(T.symbol) returns a token whose address is a.
C40_RegistryIndexesConsistent ==
    Applied("lookup") =>
        LET registered == MAINNET_TOKENS \o fnCall.args[1]
            latest == LastRegistered(registered, fnCall.args[2])
            out == fnResult.value
        IN  /\ IF latest = Undefined
               THEN out.bySymbol = Undefined
               ELSE /\ out.bySymbol # Undefined
                    /\ out.bySymbol.symbol = latest.symbol
                    /\ BigInt(out.bySymbol.address) = BigInt(latest.address)
            /\ out.byAddress # Undefined =>
                 /\ out.bySymbolOfFound # Undefined
                 /\ BigInt(out.bySymbolOfFound.address)
                      = BigInt(fnCall.args[3])

-----------------------------------------------------------------------------
(* Termination of a poller whose fetches all fail                          *)

\* C38: when every fetch of a running poller fails with an error other than
\* a cancellation and stop() is never called, then, the timer firing and the
\* fetches ending, the poller eventually is idle by the error threshold, and
\* onStop("errors") has been invoked.
C38_FailingPollerStops ==
    isRunning ~> (/\ ~isRunning
                  /\ errorStops >= 1
                  /\ consecutiveErrors >= maxConsecutiveErrors)

\* The second failure in a row has stopped a poller whose threshold is 2:
\* onError, then onStop("errors").
C38_Witness ==
    /\ event.op = "settle"
    /\ maxConsecutiveErrors = 2
    /\ consecutiveErrors = 2
    /\ starts = 1
    /\ ~isRunning
    /\ armed = {}
    /\ Len(callbacks) = 2
    /\ callbacks[1].cb = "onError"
    /\ callbacks[2] = Callback("onStop", "errors")

=============================================================================
